---- MODULE Spec2Model ----
(***************************************************************************)
(* Synchronization engine of FreeFileSync (Source/synchronization.cpp):    *)
(* FolderPairSyncer::runSync and its three passes, the Workload buckets,   *)
(* the worker threads with the core mutex "singleThread", the error        *)
(* channel of AsyncCallback, the per-item statistics of                    *)
(* AsyncItemStatReporter, and (specification SpecStats) the lock-free      *)
(* statistics counters of AsyncCallback.                                   *)
(*                                                                         *)
(* The comparison tree is an arena: item 0 is the BaseFolderPair, every    *)
(* other item has a parent id.  An abstract-filesystem call is a pair of   *)
(* steps: the worker releases singleThread (parallelScope) and, when the   *)
(* call returns, takes it again together with the outcome of the call,   *)
(* which is a nondeterministic choice (success, FileError, source gone).   *)
(***************************************************************************)
EXTENDS Integers, Sequences, FiniteSets, Bags, TLC

\* ------------------------------------------------------------------ bounds
ThreadCount == 2      \* syncCtx.threadCount: worker threads of one pass
MaxErrors   == 1      \* commands that the abstract filesystem makes fail during one run
MaxRetries  == 2      \* FileErrors one command raises (the first time and when retried)
StealThreadCount == 3  \* worker threads of the workload on its own (SpecSteal)
MaxLoad     == 9      \* work items in the loaded bucket when SpecSteal begins
MaxItem     == 7      \* arena slots besides the base folder
MaxDeltas   == 2      \* SpecStats: updateData calls one worker makes

Workers == 1..ThreadCount
Items   == 0..MaxItem
Base    == 0
NoRef   == 0          \* a null move-ref (item 0 is the base folder, never a file)

\* enum PassNo, synchronization.cpp:1142
PASS_ZERO  == 0
PASS_ONE   == 1
PASS_TWO   == 2
PASS_NEVER == 3

CreateOps   == {"SO_CREATE_NEW_LEFT", "SO_CREATE_NEW_RIGHT"}
DeleteOps   == {"SO_DELETE_LEFT", "SO_DELETE_RIGHT"}
OverwriteOps == {"SO_OVERWRITE_LEFT", "SO_OVERWRITE_RIGHT"}
MetaOps     == {"SO_COPY_METADATA_TO_LEFT", "SO_COPY_METADATA_TO_RIGHT"}
MoveFromOps == {"SO_MOVE_LEFT_FROM", "SO_MOVE_RIGHT_FROM"}
MoveToOps   == {"SO_MOVE_LEFT_TO", "SO_MOVE_RIGHT_TO"}
IdleOps     == {"SO_DO_NOTHING", "SO_EQUAL", "SO_UNRESOLVED_CONFLICT"}
SyncOps     == CreateOps \cup DeleteOps \cup OverwriteOps \cup MetaOps
                 \cup MoveFromOps \cup MoveToOps \cup IdleOps

\* getTargetDirection: the side an operation writes to, "none" for NoValue()
getTargetDirection(syncOp) ==
    IF syncOp \in {"SO_CREATE_NEW_LEFT", "SO_DELETE_LEFT", "SO_OVERWRITE_LEFT",
                   "SO_COPY_METADATA_TO_LEFT", "SO_MOVE_LEFT_FROM", "SO_MOVE_LEFT_TO"}
    THEN "L"
    ELSE IF syncOp \in {"SO_CREATE_NEW_RIGHT", "SO_DELETE_RIGHT", "SO_OVERWRITE_RIGHT",
                        "SO_COPY_METADATA_TO_RIGHT", "SO_MOVE_RIGHT_FROM", "SO_MOVE_RIGHT_TO"}
    THEN "R"
    ELSE "none"

OtherSide(side) == IF side = "L" THEN "R" ELSE "L"

\* ------------------------------------------------------------- input trees
\* One arena entry.  L and R are the per-side attributes: 0 is "empty on that
\* side", n > 0 an item whose file size is n.
Entry(k, p, n, o, l, r, m) ==
    [kind |-> k, parent |-> p, name |-> n, present |-> TRUE, op |-> o,
     L |-> l, R |-> r, ref |-> m]

\* a free arena slot of the base folder, used by addSubFile in setup2StepMove
Spare == [kind |-> "file", parent |-> Base, name |-> 9, present |-> FALSE,
          op |-> "SO_EQUAL", L |-> 0, R |-> 0, ref |-> NoRef]

BaseEntry == [kind |-> "base", parent |-> Base, name |-> 0, present |-> TRUE,
              op |-> "SO_EQUAL", L |-> 1, R |-> 1, ref |-> NoRef]

\* "moves": two files move out of folder 1, which is deleted on the left, into
\* folder 2, which is new on the left.
TreeMoves ==
    [i \in Items |->
       CASE i = 0 -> BaseEntry
         [] i = 1 -> Entry("folder", 0, 1, "SO_DELETE_LEFT", 1, 0, NoRef)
         [] i = 2 -> Entry("folder", 0, 2, "SO_CREATE_NEW_LEFT", 0, 1, NoRef)
         [] i = 3 -> Entry("file", 1, 3, "SO_MOVE_LEFT_FROM", 1, 0, 5)
         [] i = 4 -> Entry("file", 1, 4, "SO_MOVE_LEFT_FROM", 1, 0, 6)
         [] i = 5 -> Entry("file", 2, 3, "SO_MOVE_LEFT_TO", 0, 1, 3)
         [] i = 6 -> Entry("file", 2, 4, "SO_MOVE_LEFT_TO", 0, 1, 4)
         [] OTHER -> Spare]

\* "twostep": file "a" moves to "a/a" (name 1 for both the file and the new
\* folder): the source stands in the way of the target's parent folder.
TreeTwoStep ==
    [i \in Items |->
       CASE i = 0 -> BaseEntry
         [] i = 1 -> Entry("file", 0, 1, "SO_MOVE_LEFT_FROM", 1, 0, 3)
         [] i = 2 -> Entry("folder", 0, 1, "SO_CREATE_NEW_LEFT", 0, 1, NoRef)
         [] i = 3 -> Entry("file", 2, 1, "SO_MOVE_LEFT_TO", 0, 1, 1)
         [] OTHER -> Spare]

\* "mixed": a new folder with a new file, a growing overwrite, a deletion,
\* and a plain move out of a folder that exists on both sides.
TreeMixed ==
    [i \in Items |->
       CASE i = 0 -> BaseEntry
         [] i = 1 -> Entry("folder", 0, 1, "SO_CREATE_NEW_RIGHT", 1, 0, NoRef)
         [] i = 2 -> Entry("file", 1, 2, "SO_CREATE_NEW_RIGHT", 1, 0, NoRef)
         [] i = 3 -> Entry("file", 0, 3, "SO_OVERWRITE_LEFT", 1, 2, NoRef)
         [] i = 4 -> Entry("folder", 0, 4, "SO_EQUAL", 1, 1, NoRef)
         [] i = 5 -> Entry("file", 4, 5, "SO_MOVE_LEFT_FROM", 1, 0, 6)
         [] i = 6 -> Entry("file", 0, 6, "SO_MOVE_LEFT_TO", 0, 1, 5)
         [] i = 7 -> Entry("link", 0, 7, "SO_DELETE_RIGHT", 0, 1, NoRef)
         [] OTHER -> Spare]

\* "skip": folder 1 is new on the right with a file, a symlink and a folder
\* below it; file 5, folder 6 and the symlink 7 below folder 6 are unresolved
\* conflicts.
TreeSkip ==
    [i \in Items |->
       CASE i = 0 -> BaseEntry
         [] i = 1 -> Entry("folder", 0, 1, "SO_CREATE_NEW_RIGHT", 1, 0, NoRef)
         [] i = 2 -> Entry("file", 1, 2, "SO_CREATE_NEW_RIGHT", 1, 0, NoRef)
         [] i = 3 -> Entry("link", 1, 3, "SO_CREATE_NEW_RIGHT", 1, 0, NoRef)
         [] i = 4 -> Entry("folder", 1, 4, "SO_CREATE_NEW_RIGHT", 1, 0, NoRef)
         [] i = 5 -> Entry("file", 0, 5, "SO_UNRESOLVED_CONFLICT", 1, 2, NoRef)
         [] i = 6 -> Entry("folder", 0, 6, "SO_UNRESOLVED_CONFLICT", 1, 1, NoRef)
         [] i = 7 -> Entry("link", 6, 7, "SO_UNRESOLVED_CONFLICT", 1, 1, NoRef)
         [] OTHER -> Spare]

Scenarios == {"moves", "twostep", "mixed"}

\* the trees of the runs with verifyCopiedFiles_ on or off
EdgeScenarios == Scenarios \cup {"skip"}

TreeOf(s) ==
    CASE s = "moves"   -> TreeMoves
      [] s = "twostep" -> TreeTwoStep
      [] s = "skip"    -> TreeSkip
      [] OTHER         -> TreeMixed


\* -------------------------------------------------------------------- state
VARIABLES
    scn,            \* the input tree that is synchronized
    tree,           \* the comparison tree: [Items -> entry]
    pass,           \* pass that runSync is in
    mpc,            \* main thread: "start", "wait", "join", "done"
    threads,        \* worker threads created and not yet terminated: <<pass, idx>>
    wpc,            \* worker: "next", "expand", "idle", "lock", "run", "io", "err", "term"
    witem,          \* worker's work item [t, id]
    wpos,           \* worker's position inside the work item
    wcur,           \* entity of the innermost synchronizeFolder/File/Link call
    wtgt,           \* prepareFileMove: targetObj
    wk,             \* createParentFolder: next folder of the target's parent chain
    wres,           \* outcome of the last abstract-filesystem call
    wretry,         \* tryReportingError: retryNumber
    wstat,          \* worker's AsyncItemStatReporter
    holds,          \* workers that own std::mutex singleThread
    lockWork,       \* owner of Workload::lockWork_ (0: free)
    bucket,         \* Workload::workload_: per thread, a sequence of work items
    folders,        \* Workload::foldersToProcess_
    idleThreads,    \* Workload::idleThreads_
    finishNow,      \* AsyncCallback::finishNowRequest_
    errorRequest,   \* AsyncCallback::errorRequest_: requesting worker, 0 for none
    errorResponse,  \* AsyncCallback::errorResponse_: "none", "IGNORE", "RETRY"
    interrupted,    \* InterruptibleThread::interrupt() was called on the worker
    nerr,           \* FileErrors raised so far
    procItems, procBytes,   \* sum of all updateDataProcessed deltas
    totItems, totBytes,     \* initial total plus all updateDataTotal deltas
    fsLog,          \* filesystem operations performed: [what, kind, item, pass, by]
    wiDone,         \* folder work items of the current pass that have finished
    wsnap,          \* the entity as it was when the worker's synchronize call began
    logInfoRequest, \* AsyncCallback::logInfoRequest_: logging worker, 0 for none
    notified,       \* idle workers that conditionNewWork_ has notified
    reqRetry,       \* AsyncCallback::errorRequest_->retryNumber
    wfails,         \* FileErrors the command of the worker's tryReportingError raised
    logPending,     \* log lines written to logInfoRequest_ since the main thread last drained it
    pending, forwarded, added, mread, mstage,  \* statistics counters (SpecStats)
    deletionPolicy, \* DeletionHandling::deletionPolicy_
    recyclerSession,\* DeletionHandling::recyclerSession_ (FALSE: empty pointer)
    versioner,      \* DeletionHandling::versioner_ (FALSE: empty pointer)
    failSafeFileCopy, \* FolderPairSyncer::failSafeFileCopy_
    verifyCopiedFiles, \* FolderPairSyncer::verifyCopiedFiles_
    dfs,            \* items below the base folder: [path, old] per item (SpecDel)
    dw,             \* worker inside DeletionHandling / copyFileWithCallback (SpecDel)
    handlesMade,    \* handles constructed so far: [recycler, versioner]
    dfails,         \* FileErrors raised so far (SpecDel)
    folderPairCfg,  \* fff::synchronize: syncConfig and statistics per folder pair
    jobType,        \* fff::synchronize: jobType per folder pair
    jpc,            \* fff::synchronize: position ("off" when it is not modelled)
    folderIndex,    \* fff::synchronize: folderIndex of the loop the thread is in
    jexc,           \* exception that is leaving fff::synchronize: "none", "X"
    jretry,         \* tryReportingError(cmd, callback): retryNumber
    session,        \* sides whose DeletionHandling owns a recyclerSession_
    jlog,           \* calls made so far: [ev, pair, what]
    lockRequest,    \* owner of AsyncCallback::lockRequest_ (0: free)
    lockCurrentStatus \* owner of AsyncCallback::lockCurrentStatus_ (0: free)

engineVars == <<scn, tree, pass, mpc, threads, wpc, witem, wpos, wcur, wtgt, wk,
                wres, wretry, wstat, holds, lockWork, bucket, folders,
                idleThreads, finishNow, errorRequest, errorResponse, interrupted,
                nerr, procItems, procBytes, totItems, totBytes, fsLog, wiDone,
                wsnap, logInfoRequest, notified, reqRetry, wfails, logPending>>
statVars   == <<pending, forwarded, added, mread, mstage>>
jobVars    == <<folderPairCfg, jobType, jpc, folderIndex, jexc, jretry, session, jlog>>
lockVars   == <<lockRequest, lockCurrentStatus>>
delVars    == <<deletionPolicy, recyclerSession, versioner, failSafeFileCopy, dfs, dw,
                handlesMade, dfails, verifyCopiedFiles, jobVars, lockVars>>
vars       == <<engineVars, statVars, delVars>>

\* ------------------------------------------------------------ tree helpers
RECURSIVE SumOver(_, _)
SumOver(f, S) ==
    IF S = {} THEN 0
    ELSE LET x == CHOOSE y \in S : TRUE IN f[x] + SumOver(f, S \ {x})

RECURSIVE SeqOf(_)
\* the elements of a set of item ids in list order (ascending id)
SeqOf(S) ==
    IF S = {} THEN <<>>
    ELSE LET x == CHOOSE y \in S : \A z \in S : y <= z IN <<x>> \o SeqOf(S \ {x})

Reverse(s) == [k \in 1..Len(s) |-> s[Len(s) + 1 - k]]

\* ContainerObject::refSubFolders / refSubFiles / refSubLinks
SubItems(t, c, k) ==
    {i \in Items \ {Base} : t[i].present /\ t[i].parent = c /\ t[i].kind = k}

Children(t, c) == {i \in Items \ {Base} : t[i].present /\ t[i].parent = c}

RECURSIVE Descendants(_, _)
Descendants(t, c) ==
    Children(t, c) \cup UNION {Descendants(t, i) : i \in Children(t, c)}

isEmpty(e, side) == IF side = "L" THEN e.L = 0 ELSE e.R = 0
sizeOf(e, side)  == IF side = "L" THEN e.L ELSE e.R

\* ------------------------------------------------------------ SyncStatistics
\* SyncStatistics::processFile / processLink / processFolder: getCUD of one row
ItemCUD(e) ==
    IF e.kind = "file"
    THEN (IF e.op \in CreateOps \cup DeleteOps \cup MoveToOps \cup OverwriteOps \cup MetaOps
          THEN 1 ELSE 0)
    ELSE (IF e.op \in CreateOps \cup DeleteOps \cup OverwriteOps \cup MetaOps
          THEN 1 ELSE 0)

\* SyncStatistics::processFile: bytesToProcess_ of one row (source side's size)
ItemBytes(e) ==
    IF e.kind = "file" /\ e.op \in CreateOps \cup OverwriteOps
    THEN sizeOf(e, OtherSide(getTargetDirection(e.op)))
    ELSE 0

\* SyncStatistics(const ContainerObject&): the rows below c, c itself excluded
SubStats(t, c) ==
    [items |-> SumOver([i \in Items |-> ItemCUD(t[i])], Descendants(t, c)),
     bytes |-> SumOver([i \in Items |-> ItemBytes(t[i])], Descendants(t, c))]

\* ------------------------------------------------------------------ getPass
\* getPass(const FilePair&) without the comparison of the file sizes
getPassFile_overwriteLate(e) ==
    IF e.op \in DeleteOps THEN PASS_ONE
    ELSE IF e.op \in OverwriteOps \cup MoveToOps \cup CreateOps \cup MetaOps THEN PASS_TWO
    ELSE PASS_NEVER

\* getPass(const FilePair&) with the move target handled together with the
\* deletions
getPassFile_moveInPassOne(e) ==
    IF e.op \in DeleteOps \cup MoveToOps THEN PASS_ONE
    ELSE IF e.op = "SO_OVERWRITE_LEFT"
         THEN (IF e.L > e.R THEN PASS_ONE ELSE PASS_TWO)
    ELSE IF e.op = "SO_OVERWRITE_RIGHT"
         THEN (IF e.L < e.R THEN PASS_ONE ELSE PASS_TWO)
    ELSE IF e.op \in CreateOps \cup MetaOps THEN PASS_TWO
    ELSE PASS_NEVER

getPassFile(e) ==
    IF e.op \in DeleteOps THEN PASS_ONE
    ELSE IF e.op = "SO_OVERWRITE_LEFT"
         THEN (IF e.L > e.R THEN PASS_ONE ELSE PASS_TWO)
    ELSE IF e.op = "SO_OVERWRITE_RIGHT"
         THEN (IF e.L < e.R THEN PASS_ONE ELSE PASS_TWO)
    ELSE IF e.op \in MoveFromOps THEN PASS_NEVER
    ELSE IF e.op \in MoveToOps \cup CreateOps \cup MetaOps THEN PASS_TWO
    ELSE PASS_NEVER

\* getPass(const SymlinkPair&) that returns PASS_NEVER for no operation
getPassLink_neverNever(e) ==
    IF e.op \in DeleteOps THEN PASS_ONE ELSE PASS_TWO

getPassLink(e) ==
    IF e.op \in DeleteOps THEN PASS_ONE
    ELSE IF e.op \in OverwriteOps \cup CreateOps \cup MetaOps THEN PASS_TWO
    ELSE PASS_NEVER

getPassFolder_createEarly(e) ==
    IF e.op \in DeleteOps \cup CreateOps THEN PASS_ONE
    ELSE IF e.op \in OverwriteOps \cup MetaOps THEN PASS_TWO
    ELSE PASS_NEVER

getPassFolder(e) ==
    IF e.op \in DeleteOps THEN PASS_ONE
    ELSE IF e.op \in CreateOps \cup OverwriteOps \cup MetaOps THEN PASS_TWO
    ELSE PASS_NEVER

\* ------------------------------------------------ appendFolderLevelWorkItems
NoItem == [t |-> "none", id |-> Base]
WI(t, i) == [t |-> t, id |-> i]

\* the work items one container adds, in the order they are appended
NewWorkItems(p, t, c) ==
    LET fo == SeqOf({i \in SubItems(t, c, "folder") : p = getPassFolder(t[i])})
        fi == SeqOf({i \in SubItems(t, c, "file") :
                        p = PASS_ZERO \/ p = getPassFile(t[i])})
        li == SeqOf({i \in SubItems(t, c, "link") : p = getPassLink(t[i])})
    IN  [k \in 1..Len(fo) |-> WI("folder", fo[k])]
          \o [k \in 1..Len(fi) |-> WI(IF p = PASS_ZERO THEN "prep" ELSE "file", fi[k])]
          \o [k \in 1..Len(li) |-> WI("link", li[k])]

NewFolders_alsoMatching(p, t, c) == SeqOf(SubItems(t, c, "folder"))

\* appendFolderLevelWorkItems: a folder that is no work item of this pass is
\* traversed right away
NewFolders(p, t, c) == SeqOf({i \in SubItems(t, c, "folder") : p # getPassFolder(t[i])})


\* ---------------------------------------------------- file_hierarchy updates
WithSide(e, side, v) == IF side = "L" THEN [e EXCEPT !.L = v] ELSE [e EXCEPT !.R = v]

\* FileSystemObject::setSyncedTo<sideTrg>: the target side takes the source
\* side's attributes, the row is in sync and no longer part of a move
setSyncedTo(e, sideTrg) ==
    [WithSide(e, sideTrg, sizeOf(e, OtherSide(sideTrg)))
       EXCEPT !.op = "SO_EQUAL", !.ref = NoRef]

\* FileSystemObject::removeObject<side>: the row is empty on that side
removeObject(e, side) ==
    [WithSide(e, side, 0)
       EXCEPT !.op = IF sizeOf(e, OtherSide(side)) = 0 THEN "SO_EQUAL" ELSE "SO_DO_NOTHING",
              !.ref = NoRef]

\* FilePair::setMoveRef(nullptr): the row falls back to delete or create
clearMoveRef(e) ==
    [e EXCEPT !.ref = NoRef,
              !.op = CASE e.op = "SO_MOVE_LEFT_FROM"  -> "SO_DELETE_LEFT"
                       [] e.op = "SO_MOVE_RIGHT_FROM" -> "SO_DELETE_RIGHT"
                       [] e.op = "SO_MOVE_LEFT_TO"    -> "SO_CREATE_NEW_LEFT"
                       [] e.op = "SO_MOVE_RIGHT_TO"   -> "SO_CREATE_NEW_RIGHT"
                       [] OTHER -> e.op]

\* ContainerObject::refSubFiles/Links/Folders().clear(): the rows below c are gone
clearSubLists(t, c) ==
    [i \in Items |-> IF i \in Descendants(t, c) THEN [t[i] EXCEPT !.present = FALSE]
                     ELSE t[i]]

\* haveNameClash(shortname, list): a row of the list carries the same name
haveNameClash(t, n, list) ==
    \E j \in list : t[j].name = n

\* the FolderPair ancestors of an item, outermost first
RECURSIVE FolderChain(_, _)
FolderChain(t, i) ==
    IF t[i].parent = Base THEN <<>>
    ELSE FolderChain(t, t[i].parent) \o <<t[i].parent>>

\* --------------------------------------------------- AsyncItemStatReporter
NoScope == [on |-> FALSE, ie |-> 0, be |-> 0, ir |-> 0, br |-> 0]
Scope(i, b) == [on |-> TRUE, ie |-> i, be |-> b, ir |-> 0, br |-> 0]

\* reportDelta whose special rule adds the excess to the total but leaves
\* itemsReported_ / bytesReported_ above the expectation
reportDelta_noCap(st, di, db) ==
    LET ir1 == st.ir + di
        br1 == st.br + db
    IN  [st |-> [st EXCEPT !.ir = ir1, !.br = br1],
         pI |-> di, pB |-> db,
         tI |-> IF ir1 > st.ie THEN ir1 - st.ie ELSE 0,
         tB |-> IF br1 > st.be THEN br1 - st.be ELSE 0]

\* AsyncItemStatReporter::reportDelta: the new reporter, the processed deltas
\* and what the "special rule" adds to the total
reportDelta(st, di, db) ==
    LET ir1 == st.ir + di
        br1 == st.br + db
    IN  [st |-> [st EXCEPT !.ir = IF ir1 > st.ie THEN st.ie ELSE ir1,
                           !.br = IF br1 > st.be THEN st.be ELSE br1],
         pI |-> di, pB |-> db,
         tI |-> IF ir1 > st.ie THEN ir1 - st.ie ELSE 0,
         tB |-> IF br1 > st.be THEN br1 - st.be ELSE 0]

scopeExit_alwaysNormal(st, scopeFail) ==
    [tI |-> st.ir - st.ie, tB |-> st.br - st.be]

\* ~AsyncItemStatReporter: what the destructor adds to the total
scopeExit(st, scopeFail) ==
    IF scopeFail THEN [tI |-> st.ir, tB |-> st.br]
    ELSE [tI |-> st.ir - st.ie, tB |-> st.br - st.be]

\* AsyncCallback::updateDataProcessed / updateDataTotal, summed up
AddStats(pI, pB, tI, tB) ==
    /\ procItems' = procItems + pI
    /\ procBytes' = procBytes + pB
    /\ totItems'  = totItems + tI
    /\ totBytes'  = totBytes + tB

NoStats == UNCHANGED <<procItems, procBytes, totItems, totBytes>>

\* --------------------------------------------------------------------- Init
EngineInitOf(S) ==
    /\ scn \in S
    /\ tree = TreeOf(scn)
    /\ pass = PASS_ZERO
    /\ mpc = "start"
    /\ threads = {}
    /\ wpc = [w \in Workers |-> "term"]
    /\ witem = [w \in Workers |-> NoItem]
    /\ wpos = [w \in Workers |-> "none"]
    /\ wcur = [w \in Workers |-> Base]
    /\ wtgt = [w \in Workers |-> Base]
    /\ wk = [w \in Workers |-> 0]
    /\ wres = [w \in Workers |-> "none"]
    /\ wretry = [w \in Workers |-> 0]
    /\ wstat = [w \in Workers |-> NoScope]
    /\ holds = {}
    /\ lockWork = 0
    /\ bucket = [w \in Workers |-> <<>>]
    /\ folders = <<>>
    /\ idleThreads = 0
    /\ finishNow = FALSE
    /\ errorRequest = 0
    /\ errorResponse = "none"
    /\ interrupted = [w \in Workers |-> FALSE]
    /\ nerr = 0
    /\ procItems = 0
    /\ procBytes = 0
    \* fff::synchronize: initNewPhase(itemsTotal, bytesTotal, PHASE_SYNCHRONIZING)
    /\ totItems = SubStats(TreeOf(scn), Base).items
    /\ totBytes = SubStats(TreeOf(scn), Base).bytes
    /\ fsLog = {}
    /\ wiDone = {}
    /\ wsnap = [w \in Workers |-> BaseEntry]
    /\ logInfoRequest = 0
    /\ notified = {}
    /\ reqRetry = 0
    /\ wfails = [w \in Workers |-> 0]
    /\ logPending = 0

EngineInit == EngineInitOf(Scenarios)

StatIdle ==
    /\ pending = [c \in {"itemsProcessed", "bytesProcessed", "itemsTotal", "bytesTotal"} |-> 0]
    /\ forwarded = pending
    /\ added = pending
    /\ mread = pending
    /\ mstage = "off"

\* fff::synchronize is not part of the run: runSync is entered directly
JobIdle ==
    /\ folderPairCfg = <<>>
    /\ jobType = <<>>
    /\ jpc = "off"
    /\ folderIndex = 0
    /\ jexc = "none"
    /\ jretry = 0
    /\ session = {}
    /\ jlog = {}

\* the mutexes of AsyncCallback are not modelled on their own: they are free
LocksIdle == lockRequest = 0 /\ lockCurrentStatus = 0

\* the DeletionHandling of the engine's runs deletes permanently and owns no
\* handle
DelIdleOf(V) ==
    /\ JobIdle
    /\ LocksIdle
    /\ verifyCopiedFiles \in V
    /\ deletionPolicy = "PERMANENT"
    /\ recyclerSession = FALSE
    /\ versioner = FALSE
    /\ failSafeFileCopy = TRUE
    /\ dfs = <<>>
    /\ dw = <<>>
    /\ handlesMade = [recycler |-> 0, versioner |-> 0, failed |-> 0]
    /\ dfails = 0

\* the runs of the engine copy without verification
DelIdle == DelIdleOf({FALSE})

Init == EngineInit /\ StatIdle /\ DelIdle

\* FolderPairSyncer::SyncCtx: verifyCopiedFiles is a setting of the run
EdgeInit == EngineInitOf(EdgeScenarios) /\ StatIdle /\ DelIdleOf(BOOLEAN)

\* ---------------------------------------------------------------- frames
mainVars  == <<scn, pass, mpc, threads, interrupted>>
loadVars  == <<bucket, folders, idleThreads, lockWork>>
chanVars  == <<errorRequest, errorResponse>>
sumVars   == <<procItems, procBytes, totItems, totBytes>>
ghostVars == <<fsLog, wiDone, wsnap>>
callVars  == <<witem, wcur, wtgt, wk, wres, wretry, wstat>>
extVars   == <<logInfoRequest, notified, reqRetry, wfails, logPending>>
workFrame == <<mainVars, bucket, idleThreads, finishNow, statVars, delVars>>

Goto(w, pc, pos) ==
    /\ wpc' = [wpc EXCEPT ![w] = pc]
    /\ wpos' = [wpos EXCEPT ![w] = pos]

\* ------------------------------------------------------------- main thread
\* FolderPairSyncer::runPass: the AsyncCallback, the Workload and the workers
StartPass ==
    /\ mpc = "start"
    /\ mpc' = "wait"
    /\ threads' = threads \cup {<<pass, w>> : w \in Workers}
    /\ wpc' = [w \in Workers |-> "next"]
    /\ wpos' = [w \in Workers |-> "none"]
    /\ witem' = [w \in Workers |-> NoItem]
    /\ bucket' = [w \in Workers |-> <<>>]
    /\ folders' = <<Base>>
    /\ idleThreads' = 0
    /\ lockWork' = 0
    /\ finishNow' = FALSE
    /\ errorRequest' = 0
    /\ errorResponse' = "none"
    /\ interrupted' = [w \in Workers |-> FALSE]
    /\ wiDone' = {}
    /\ logInfoRequest' = 0
    /\ logPending' = 0
    /\ reqRetry' = 0
    /\ notified' = {}
    /\ UNCHANGED <<scn, tree, pass, wcur, wtgt, wk, wres, wretry, wstat, holds, nerr,
                   sumVars, fsLog, wsnap, statVars, delVars, wfails>>

\* AsyncCallback::waitUntilDone: an error request is answered by the reporter
MainRespond ==
    /\ mpc = "wait"
    /\ errorRequest # 0
    /\ errorResponse = "none"
    /\ \E r \in {"IGNORE", "RETRY"} : errorResponse' = r
    /\ UNCHANGED <<mainVars, tree, wpc, wpos, callVars, holds, loadVars, finishNow,
                   errorRequest, nerr, sumVars, ghostVars, statVars, delVars, extVars>>

\* runPass leaving without wt.interrupt()
InterruptAll_none == interrupted

\* runPass: ZEN_ON_SCOPE_EXIT( for (InterruptibleThread& wt : worker) wt.interrupt(); )
InterruptAll == [w \in Workers |-> TRUE]

\* waitUntilDone: cb.logInfo(*logInfoRequest_); logInfoRequest_ = NoValue()
MainLog ==
    /\ mpc = "wait"
    /\ logInfoRequest # 0
    /\ logInfoRequest' = 0
    /\ logPending' = 0
    /\ UNCHANGED <<mainVars, tree, wpc, wpos, callVars, holds, loadVars, finishNow,
                   chanVars, nerr, sumVars, ghostVars, statVars, delVars, notified, reqRetry, wfails>>

\* waitUntilDone returns on finishNowRequest_; runPass's scope guards then
\* interrupt every worker
MainFinish ==
    /\ mpc = "wait"
    /\ finishNow
    /\ ~(errorRequest # 0 /\ errorResponse = "none")
    /\ logInfoRequest = 0
    /\ mpc' = "join"
    /\ interrupted' = InterruptAll
    /\ UNCHANGED <<scn, pass, threads, tree, wpc, wpos, callVars, holds, loadVars,
                   finishNow, chanVars, nerr, sumVars, ghostVars, statVars, delVars, extVars>>

JoinWorkers_noJoin == TRUE

\* runPass: for (InterruptibleThread& wt : worker) wt.join()
JoinWorkers == \A w \in Workers : wpc[w] = "term"

\* runPass returns; runSync goes on with the next pass
MainJoin ==
    /\ mpc = "join"
    /\ JoinWorkers
    /\ IF pass < PASS_TWO
       THEN pass' = pass + 1 /\ mpc' = "start"
       ELSE pass' = pass /\ mpc' = "done"
    /\ UNCHANGED <<scn, threads, interrupted, tree, wpc, wpos, callVars, holds,
                   loadVars, finishNow, chanVars, nerr, sumVars, ghostVars, statVars, delVars, extVars>>

\* ----------------------------------------------------- Workload::getNext
Last(s)  == s[Len(s)]
Front(s) == SubSeq(s, 1, Len(s) - 1)

\* the test for remaining work looking at the buckets only
AllEmpty_bucketsOnly == \A v \in DOMAIN bucket : bucket[v] = <<>>

\* getNext: neither "if (!workload_[threadIdx].empty())", "if
\* (!foldersToProcess_.empty())" nor "if (!items.empty())" holds
AllEmpty == folders = <<>> /\ \A v \in DOMAIN bucket : bucket[v] = <<>>

\* getNext holds lockWork_ from its first statement until it returns a work
\* item or waits: lockWork = w with the worker at "next" is a worker inside
\* the loop.
\* getNext: pop from the own bucket
GetNextPop(w) ==
    /\ wpc[w] = "next"
    /\ lockWork \in {0, w}
    /\ lockWork' = 0
    /\ bucket[w] # <<>>
    /\ witem' = [witem EXCEPT ![w] = Last(bucket[w])]
    /\ bucket' = [bucket EXCEPT ![w] = Front(bucket[w])]
    /\ Goto(w, "lock", "begin")
    /\ UNCHANGED <<mainVars, tree, wcur, wtgt, wk, wres, wretry, wstat, holds, folders,
                   idleThreads, finishNow, chanVars, nerr, sumVars,
                   ghostVars, statVars, delVars, extVars>>

\* getNext: take a folder off foldersToProcess_ and start reading it (under
\* lockWork_, without singleThread)
ExpandBegin(w) ==
    /\ wpc[w] = "next"
    /\ lockWork \in {0, w}
    /\ bucket[w] = <<>>
    /\ folders # <<>>
    /\ wcur' = [wcur EXCEPT ![w] = Last(folders)]
    /\ folders' = Front(folders)
    /\ lockWork' = w
    /\ Goto(w, "expand", "none")
    /\ UNCHANGED <<mainVars, tree, witem, wtgt, wk, wres, wretry, wstat, holds, bucket,
                   idleThreads, finishNow, chanVars, nerr, sumVars, ghostVars, statVars, delVars, extVars>>

\* getNext: appendFolderLevelWorkItems has read the folder; both appended
\* ranges are reversed
ExpandEnd(w) ==
    /\ wpc[w] = "expand"
    /\ bucket' = [bucket EXCEPT ![w] = @ \o Reverse(NewWorkItems(pass, tree, wcur[w]))]
    /\ folders' = folders \o Reverse(NewFolders(pass, tree, wcur[w]))
    /\ Goto(w, "next", "none")
    /\ UNCHANGED <<mainVars, tree, callVars, holds, idleThreads, lockWork, finishNow, chanVars,
                   nerr, sumVars, ghostVars, statVars, delVars, extVars>>

\* max_element taken to return the last of the largest buckets
LargestBucket_last ==
    CHOOSE v \in DOMAIN bucket :
        /\ \A u \in DOMAIN bucket : Len(bucket[u]) <= Len(bucket[v])
        /\ \A u \in DOMAIN bucket : Len(bucket[u]) = Len(bucket[v]) => v >= u

\* std::max_element: the first of the largest buckets
LargestBucket ==
    CHOOSE v \in DOMAIN bucket :
        /\ \A u \in DOMAIN bucket : Len(bucket[u]) <= Len(bucket[v])
        /\ \A u \in DOMAIN bucket : Len(bucket[u]) = Len(bucket[v]) => v <= u

\* erase_if leaving the stolen elements in the victim's bucket as well
EveryOther_copy(s, first) ==
    IF first
    THEN LET idx == SeqOf({k \in 1..Len(s) : (k - 1) % 2 = 0})
         IN  [k \in 1..Len(idx) |-> s[idx[k]]]
    ELSE s

\* erase_if with pos++ % 2 == 0: the elements at positions 0, 2, 4, ...
EveryOther(s, first) ==
    LET idx == SeqOf({k \in 1..Len(s) : (k - 1) % 2 = (IF first THEN 0 ELSE 1)})
    IN  [k \in 1..Len(idx) |-> s[idx[k]]]

\* getNext: steal half of the largest bucket
Steal(w) ==
    /\ wpc[w] = "next"
    /\ lockWork \in {0, w}
    /\ lockWork' = 0
    /\ bucket[w] = <<>>
    /\ folders = <<>>
    /\ bucket[LargestBucket] # <<>>
    /\ LET v == LargestBucket
           stolen == EveryOther(bucket[v], TRUE)
       IN  /\ bucket' = [bucket EXCEPT ![v] = EveryOther(bucket[v], FALSE),
                                       ![w] = Front(stolen)]
           /\ witem' = [witem EXCEPT ![w] = Last(stolen)]
    /\ Goto(w, "lock", "begin")
    /\ UNCHANGED <<mainVars, tree, wcur, wtgt, wk, wres, wretry, wstat, holds, folders,
                   idleThreads, finishNow, chanVars, nerr, sumVars,
                   ghostVars, statVars, delVars, extVars>>

\* getNext: nothing to do; the last thread to become idle calls notifyAllDone
GoIdle(w) ==
    /\ wpc[w] = "next"
    /\ lockWork \in {0, w}
    /\ lockWork' = 0
    /\ AllEmpty
    /\ idleThreads' = idleThreads + 1
    \* if (++idleThreads_ == workload_.size()) acb_.notifyAllDone()
    /\ finishNow' = (finishNow \/ idleThreads + 1 = Len(bucket))
    /\ Goto(w, "idle", "none")
    /\ UNCHANGED <<mainVars, tree, callVars, holds, bucket, folders, chanVars,
                   nerr, sumVars, ghostVars, statVars, delVars, extVars>>

\* getNext: the thread waiting on conditionNewWork_ is notified, locks
\* lockWork_ again and interruptibleWait returns because haveNewWork()
Wake(w) ==
    /\ wpc[w] = "idle"
    /\ w \in notified
    /\ lockWork = 0
    /\ lockWork' = w
    /\ ~interrupted[w]
    /\ ~AllEmpty
    /\ idleThreads' = idleThreads - 1
    /\ notified' = notified \ {w}
    /\ Goto(w, "next", "none")
    /\ UNCHANGED <<mainVars, tree, callVars, holds, bucket, folders, finishNow,
                   chanVars, nerr, sumVars, ghostVars, statVars, delVars,
                   logInfoRequest, reqRetry, wfails, logPending>>

\* getNext: the notified thread finds no work (another thread took it) and
\* waits again
Recheck(w) ==
    /\ wpc[w] = "idle"
    /\ w \in notified
    /\ lockWork = 0
    /\ ~interrupted[w]
    /\ AllEmpty
    /\ notified' = notified \ {w}
    /\ UNCHANGED <<mainVars, tree, wpc, wpos, callVars, holds, loadVars, finishNow,
                   chanVars, nerr, sumVars, ghostVars, statVars, delVars,
                   logInfoRequest, reqRetry, wfails, logPending>>

\* getNext: interruptibleWait throws ThreadInterruption; the thread ends
WorkerExit(w) ==
    /\ wpc[w] = "idle"
    /\ lockWork = 0
    /\ interrupted[w]
    /\ idleThreads' = idleThreads - 1
    /\ threads' = threads \ {<<pass, w>>}
    /\ notified' = notified \ {w}
    /\ Goto(w, "term", "none")
    /\ UNCHANGED <<scn, pass, mpc, interrupted, tree, callVars, holds, bucket, folders,
                   lockWork, finishNow, chanVars, nerr, sumVars, ghostVars, statVars, delVars,
                   logInfoRequest, reqRetry, wfails, logPending>>


\* -------------------------------------------------------------- work items
\* std::lock_guard dummy(singleThread) of the worker loop, and the unlock /
\* lock pair of parallelScope
runPassLock(w) == holds = {} /\ holds' = {w}

parallelScopeExit_noLock(w) == holds' = holds

parallelScopeExit(w) == holds = {} /\ holds' = {w}

\* the worker calls the work item under singleThread
Acquire(w) ==
    /\ wpc[w] = "lock"
    /\ runPassLock(w)
    /\ wcur' = [wcur EXCEPT ![w] = witem[w].id]
    /\ wretry' = [wretry EXCEPT ![w] = 0]
    /\ Goto(w, "run", IF witem[w].t = "prep" THEN "pz_start" ELSE "sync_start")
    /\ UNCHANGED <<workFrame, tree, witem, wtgt, wk, wres, wstat, folders, lockWork,
                   chanVars, nerr, sumVars, ghostVars, extVars>>

FsOp(w, what, i) ==
    [what |-> what, kind |-> tree[i].kind, item |-> i, pass |-> pass, by |-> witem[w].t]

\* the folder was made on the target side by a copyNewFolder of this run
FolderOnDisk(i) == \E o \in fsLog : o.what = "create" /\ o.item = i /\ o.kind = "folder"

\* what one step of a work item changes; the default leaves everything alone
Keep(w) ==
    [tree |-> tree, pc |-> "run", pos |-> wpos[w], cur |-> wcur[w], tgt |-> wtgt[w],
     k |-> wk[w], stat |-> wstat[w], hold |-> TRUE, snap |-> wsnap[w],
     pI |-> 0, pB |-> 0, tI |-> 0, tB |-> 0, log |-> {}, logs |-> FALSE, fail |-> FALSE]

\* logInfo without the wait for the previous line
logInfoReady_noWait == TRUE

\* AsyncCallback::logInfo: interruptibleWait(conditionReadyForNewRequest_,
\* [this] { return !logInfoRequest_; })
logInfoReady == logInfoRequest = 0

\* the step begins with reportInfo (reportStatus's interruptionPoint, then
\* logInfo) or with statReporter.reportDelta(+-1, 0), which ends with
\* interruptionPoint: an interrupted worker throws ThreadInterruption there
InterruptionPoint(u) == u.logs \/ u.pI # 0

Apply(w, update) ==
    \E u \in {update} :
    /\ InterruptionPoint(u) => ~interrupted[w]
    /\ u.logs => logInfoReady
    /\ logInfoRequest' = IF u.logs THEN w ELSE logInfoRequest
    /\ logPending' = IF u.logs THEN logPending + 1 ELSE logPending
    /\ wfails' = [wfails EXCEPT ![w] = IF u.fail THEN @ + 1 ELSE @]
    /\ tree' = u.tree
    /\ Goto(w, u.pc, u.pos)
    /\ wcur' = [wcur EXCEPT ![w] = u.cur]
    /\ wtgt' = [wtgt EXCEPT ![w] = u.tgt]
    /\ wk' = [wk EXCEPT ![w] = u.k]
    /\ wstat' = [wstat EXCEPT ![w] = u.stat]
    /\ wsnap' = [wsnap EXCEPT ![w] = u.snap]
    /\ wres' = [wres EXCEPT ![w] = "none"]
    /\ holds' = IF u.hold THEN holds ELSE holds \ {w}
    /\ AddStats(u.pI, u.pB, u.tI, u.tB)
    /\ fsLog' = fsLog \cup u.log
    /\ UNCHANGED <<workFrame, witem, wretry, folders, lockWork, chanVars, nerr, wiDone,
                   notified, reqRetry>>

\* where the worker goes on when synchronizeFolder/File/Link returns
RetPos(w) ==
    CASE witem[w].t = "folder" -> "addFolder"
      [] witem[w].t = "prep" /\ tree[wcur[w]].kind = "folder" -> "cpf"
      [] OTHER -> "finish"

Return(w) == [Keep(w) EXCEPT !.pos = RetPos(w)]

\* parallelScope: unlock singleThread and call the abstract filesystem
Release(w, pos, st) ==
    [Keep(w) EXCEPT !.pc = "io", !.pos = pos, !.hold = FALSE, !.stat = st]

\* statReporter.reportDelta(di, 0), the tree update, and the end of the scope
Complete(w, t2, di, log) ==
    LET r == reportDelta(wstat[w], di, 0)
        x == scopeExit(r.st, FALSE)
    IN  [Keep(w) EXCEPT !.tree = t2, !.pos = RetPos(w), !.stat = NoScope,
                        !.pI = r.pI, !.tI = r.tI + x.tI, !.tB = r.tB + x.tB,
                        !.log = log]

\* a FileError leaves the scope of the reporter and reaches tryReportingError
Fail(w) ==
    LET x == scopeExit(wstat[w], wstat[w].on)
    IN  [Keep(w) EXCEPT !.pc = "err", !.pos = "err_post", !.stat = NoScope,
                        !.tI = x.tI, !.tB = x.tB, !.fail = TRUE]

\* SO_CREATE_NEW without the test of the parent folder
parentIsEmpty_never(t, i, side) == FALSE

\* dynamic_cast<const FolderPair*>(&obj.parent()) and
\* parentFolder->isEmpty<sideTrg>(): the base folder is never empty
parentIsEmpty(t, i, side) == t[i].parent # Base /\ isEmpty(t[t[i].parent], side)

\* synchronizeFolder / synchronizeFile / synchronizeLink up to the first
\* abstract-filesystem call
SyncStartU(w) ==
    LET i == wcur[w]
        e == tree[i]
        side == getTargetDirection(e.op)
        parentEmpty == parentIsEmpty(tree, i, side)
        sub == SubStats(tree, i)
    IN  IF side = "none" THEN Return(w)
        ELSE IF e.kind = "folder" THEN
            (CASE e.op \in CreateOps ->
                    IF parentEmpty THEN Return(w) ELSE Release(w, "fo_probe", NoScope)
               [] e.op \in DeleteOps ->
                    Release(w, "fd_rm", Scope(1 + sub.items, sub.bytes))
               [] e.op \in OverwriteOps \cup MetaOps -> Release(w, "meta_ren", Scope(1, 0))
               [] OTHER -> Return(w))
        ELSE
            (CASE e.op \in CreateOps ->
                    IF parentEmpty THEN Return(w)
                    ELSE Release(w, "fc_copy", Scope(1, ItemBytes(e)))
               [] e.op \in DeleteOps -> Release(w, "del_rm", Scope(1, 0))
               [] e.op \in MoveToOps /\ e.kind = "file" ->
                    IF e.ref # NoRef /\ tree[e.ref].present
                    THEN Release(w, "mv_ren", Scope(1, 0)) ELSE Return(w)
               [] e.op \in OverwriteOps /\ e.kind = "file" ->
                    Release(w, "ow_copy1", Scope(1, ItemBytes(e)))
               [] e.op \in OverwriteOps /\ e.kind = "link" ->
                    Release(w, "ow_rm", Scope(1, 0))
               [] e.op \in MetaOps -> Release(w, "meta_ren", Scope(1, 0))
               [] OTHER -> Return(w))

SyncStart(w) ==
    /\ wpc[w] = "run"
    /\ wpos[w] = "sync_start"
    /\ LET u == SyncStartU(w)
       IN  \* reportInfo(txt...) precedes the first abstract-filesystem call
           Apply(w, [u EXCEPT !.snap = tree[wcur[w]], !.logs = (u.pc = "io")])

\* the outcomes of the pending abstract-filesystem call: the result, the items
\* and bytes its callbacks report meanwhile, and whether it is a failure of the
\* filesystem's own making
IoOutcomes(w) ==
    LET pos == wpos[w]
        i == wcur[w]
        e == tree[i]
        B == wstat[w].be - wstat[w].br
        O(res, di, db, own) == [res |-> res, di |-> di, db |-> db, own |-> own]
    IN  CASE pos = "fo_probe" ->
               {O("exists", 0, 0, FALSE), O("missing", 0, 0, FALSE), O("error", 0, 0, TRUE)}
          [] pos = "fo_copy" ->
               IF FolderOnDisk(i) THEN {O("error", 0, 0, FALSE)}
               ELSE {O("ok", 0, 0, FALSE), O("error", 0, 0, TRUE)}
          [] pos = "fo_exist" ->
               IF FolderOnDisk(i) THEN {O("folder", 0, 0, FALSE)}
               ELSE {O("folder", 0, 0, FALSE), O("other", 0, 0, FALSE)}
          [] pos = "fc_copy" ->
               {O("ok", 0, B, FALSE), O("error", 0, 0, TRUE), O("error", 0, B, TRUE)}
          [] pos \in {"fc_probe", "vf_probe"} ->
               {O("exists", 0, 0, FALSE), O("missing", 0, 0, FALSE)}
          [] pos = "ow_copy1" ->
               {O("ok", 0, 0, FALSE), O("ok", 0, B, FALSE),
                O("error", 0, 0, TRUE), O("error", 0, B, TRUE)}
          [] pos = "ow_copy2" -> {O("ok", 0, B, FALSE), O("error", 0, 0, TRUE)}
          [] pos = "vf_verify" -> {O("ok", 0, 0, FALSE), O("error", 0, 0, TRUE)}
          [] pos = "vf_rm" -> {O("ok", 0, 0, FALSE), O("error", 0, 0, FALSE)}
          [] pos = "fd_rm" ->
               \* onBeforeFolderDeletion / onBeforeFileDeletion: one item for
               \* the folder and one for each row that exists below it
               LET side == getTargetDirection(wsnap[w].op)
                   n == 1 + Cardinality({d \in Descendants(tree, i) :
                                            ~isEmpty(tree[d], side)})
               IN  {O("ok", n, 0, FALSE), O("error", 0, 0, TRUE)}
          [] OTHER -> {O("ok", 0, 0, FALSE), O("error", 0, 0, TRUE)}

\* the filesystem may make a command fail for the first time, and a command
\* that is run again fail again
MayFail(w) ==
    /\ wfails[w] < MaxRetries
    /\ wfails[w] > 0 \/ nerr < MaxErrors

\* the abstract-filesystem call returns and parallelScope locks singleThread
\* again (for "ow_copy1" returning "ok": onDeleteTargetFile locks it)
IoReturn(w) ==
    /\ wpc[w] = "io"
    /\ parallelScopeExit(w)
    /\ \E o \in IoOutcomes(w) :
        /\ o.own => MayFail(w)
        /\ nerr' = IF o.own /\ wfails[w] = 0 THEN nerr + 1 ELSE nerr
        /\ wres' = [wres EXCEPT ![w] = o.res]
        /\ LET r == reportDelta(wstat[w], o.di, o.db)
           IN  /\ wstat' = [wstat EXCEPT ![w] = IF wstat[w].on THEN r.st ELSE wstat[w]]
               /\ AddStats(r.pI, r.pB, r.tI, r.tB)
    /\ Goto(w, "run", wpos[w])
    /\ UNCHANGED <<workFrame, tree, witem, wcur, wtgt, wk, wretry, folders, lockWork,
                   chanVars, ghostVars, extVars>>


SetEntry(t, i, e) == [t EXCEPT ![i] = e]

\* synchronizeFolderInt after an abstract-filesystem call has returned
SyncFolderU(w) ==
    LET i == wcur[w]
        e == tree[i]
        side == getTargetDirection(wsnap[w].op)
        res == wres[w]
        sub == SubStats(tree, i)
        created == Complete(w, SetEntry(tree, i, setSyncedTo(e, side)), 1, {})
    IN  CASE wpos[w] = "fo_probe" /\ res = "exists" -> Release(w, "fo_copy", Scope(1, 0))
          [] wpos[w] = "fo_probe" /\ res = "missing" ->
               \* source deleted meanwhile: the sub-lists are cleared
               CHOOSE u \in
                 {LET st == Scope(1 + s.items, s.bytes)
                      r == reportDelta(st, 1, 0)
                      x == scopeExit(r.st, FALSE)
                      t2 == SetEntry(clearSubLists(tree, i), i, removeObject(e, OtherSide(side)))
                  IN  [Keep(w) EXCEPT !.tree = t2, !.pos = RetPos(w), !.pI = r.pI,
                                      !.tI = r.tI + x.tI, !.tB = r.tB + x.tB, !.logs = TRUE]
                  : s \in {sub}} : TRUE
          [] wpos[w] = "fo_probe" -> Fail(w)
          [] wpos[w] = "fo_copy" /\ res = "ok" ->
               [created EXCEPT !.log = {FsOp(w, "create", i)}]
          [] wpos[w] = "fo_copy" -> Release(w, "fo_exist", wstat[w])
          [] wpos[w] = "fo_exist" /\ res = "folder" -> created
          [] wpos[w] = "fo_exist" -> Fail(w)
          [] wpos[w] = "fd_rm" /\ res = "ok" ->
               Complete(w, SetEntry(clearSubLists(tree, i), i, removeObject(e, side)), 0,
                        {FsOp(w, "delete", i)})
          [] wpos[w] = "fd_rm" -> Fail(w)
          [] wpos[w] = "meta_ren" /\ res = "ok" ->
               Complete(w, SetEntry(tree, i, setSyncedTo(e, side)), 1, {FsOp(w, "rename", i)})
          [] OTHER -> Fail(w)

SynchronizeFolderInt(w) ==
    /\ wpc[w] = "run"
    /\ wpos[w] \in {"fo_probe", "fo_copy", "fo_exist", "fd_rm"}
         \/ (wpos[w] = "meta_ren" /\ tree[wcur[w]].kind = "folder")
    /\ Apply(w, SyncFolderU(w))

\* FilePair of the move source: moveFrom->removeObject<sideTrg>()
MoveDone_keepSource(t, i, from, side) == SetEntry(t, i, setSyncedTo(t[i], side))

\* SO_MOVE_x_TO after renameItem: moveTo is in sync, moveFrom is empty
MoveDone(t, i, from, side) ==
    [t EXCEPT ![i] = setSyncedTo(t[i], side), ![from] = removeObject(t[from], side)]

\* copyFileWithCallback without the "Verification" block
Verified_never(w, done) == done

\* copyFileWithCallback after copyFileTransactional has returned: with
\* verifyCopiedFiles_, reportInfo(txtVerifyingFile_) and parallel::verifyFiles
Verified(w, done) ==
    IF verifyCopiedFiles
    THEN [Release(w, "vf_verify", wstat[w]) EXCEPT !.logs = TRUE, !.log = done.log]
    ELSE done

\* a verification failure that is taken for a success
VerifyFailed_ignored(w) ==
    Complete(w, SetEntry(tree, wcur[w],
                         setSyncedTo(tree[wcur[w]], getTargetDirection(wsnap[w].op))), 1, {})

\* ZEN_ON_SCOPE_FAIL of the verification has run removeFilePlain(targetPath),
\* whose FileError is swallowed; the FileError of verifyFiles goes on to the
\* catch block of SO_CREATE_NEW or leaves synchronizeFileInt
VerifyFailed(w) ==
    LET unlink == IF wres[w] = "ok" THEN {FsOp(w, "unlink", wcur[w])} ELSE {}
    IN  IF wsnap[w].op \in CreateOps
        THEN [Release(w, "vf_probe", wstat[w]) EXCEPT !.log = unlink]
        ELSE [Fail(w) EXCEPT !.log = unlink]

\* synchronizeFileInt / synchronizeLinkInt after an abstract-filesystem call
\* has returned
SyncFileU(w) ==
    LET i == wcur[w]
        e == tree[i]
        side == getTargetDirection(wsnap[w].op)
        res == wres[w]
        synced == SetEntry(tree, i, setSyncedTo(e, side))
    IN  CASE wpos[w] = "fc_copy" /\ res = "ok" ->
               IF e.kind = "file"
               THEN Verified(w, Complete(w, synced, 1, {FsOp(w, "create", i)}))
               ELSE Complete(w, synced, 1, {FsOp(w, "create", i)})
          [] wpos[w] = "vf_verify" /\ res = "ok" ->
               Complete(w, synced, 1, {})
          [] wpos[w] = "vf_verify" -> Release(w, "vf_rm", wstat[w])
          [] wpos[w] = "vf_rm" -> VerifyFailed(w)
          [] wpos[w] = "fc_copy" -> Release(w, "fc_probe", wstat[w])
          [] wpos[w] \in {"fc_probe", "vf_probe"} /\ res = "missing" ->
               \* source deleted meanwhile
               [Complete(w, SetEntry(tree, i, removeObject(e, OtherSide(side))), 1, {})
                   EXCEPT !.logs = TRUE]
          [] wpos[w] \in {"fc_probe", "vf_probe"} -> Fail(w)
          [] wpos[w] = "del_rm" /\ res = "ok" ->
               Complete(w, SetEntry(tree, i, removeObject(e, side)), 1, {FsOp(w, "delete", i)})
          [] wpos[w] = "mv_ren" /\ res = "ok" ->
               Complete(w, MoveDone(tree, i, wsnap[w].ref, side), 1, {FsOp(w, "rename", i)})
          [] wpos[w] = "ow_copy1" /\ res = "ok" -> [Keep(w) EXCEPT !.pos = "ow_cb"]
          [] wpos[w] = "ow_cb" -> Release(w, "ow_rm", wstat[w])
          [] wpos[w] = "ow_rm" /\ res = "ok" ->
               \* removeFileWithCallback / removeLinkWithCallback: reportDelta(1, 0)
               LET r == reportDelta(wstat[w], 1, 0)
               IN  [Keep(w) EXCEPT !.pos = "ow_undo", !.stat = r.st, !.pI = r.pI,
                                   !.tI = r.tI, !.log = {FsOp(w, "replace", i)}]
          [] wpos[w] = "ow_undo" ->
               \* statReporter.reportDelta(-1, 0), then the copy goes on
               LET r == reportDelta(wstat[w], -1, 0)
               IN  [Release(w, "ow_copy2", r.st) EXCEPT !.pI = r.pI, !.tI = r.tI]
          [] wpos[w] = "ow_copy2" /\ res = "ok" ->
               Verified(w, Complete(w, synced, 1, {FsOp(w, "replace", i)}))
          [] wpos[w] = "meta_ren" /\ res = "ok" -> Complete(w, synced, 1, {FsOp(w, "rename", i)})
          [] OTHER -> Fail(w)

SynchronizeFileInt(w) ==
    /\ wpc[w] = "run"
    /\ wpos[w] \in {"fc_copy", "fc_probe", "del_rm", "mv_ren", "ow_copy1", "ow_cb",
                    "ow_rm", "ow_undo", "ow_copy2", "vf_verify", "vf_rm", "vf_probe"}
         \/ (wpos[w] = "meta_ren" /\ tree[wcur[w]].kind # "folder")
    /\ Apply(w, SyncFileU(w))

\* ------------------------------------------------------------ pass 0 (moves)
\* prepareFileMove up to tryReportingError
PzStartU(w) ==
    LET e == tree[witem[w].id]
    IN  IF e.op \in MoveFromOps /\ e.ref # NoRef /\ tree[e.ref].present
             /\ tree[e.ref].kind = "file"
        THEN [Keep(w) EXCEPT !.pos = "rz_start", !.tgt = e.ref]
        ELSE [Keep(w) EXCEPT !.pos = "finish"]

\* resolveMoveConflicts that delays every move to the second pass
RzStartU_delayed(w) == [Keep(w) EXCEPT !.pos = "finish"]

\* resolveMoveConflicts up to createParentFolder / setup2StepMove
RzStartU(w) ==
    LET src == witem[w].id
        tgt == wtgt[w]
        par == tree[src].parent
        sourceWillBeDeleted == par # Base /\ tree[par].op \in DeleteOps
        clash(i) == \/ haveNameClash(tree, tree[i].name, SubItems(tree, tree[i].parent, "link"))
                    \/ haveNameClash(tree, tree[i].name, SubItems(tree, tree[i].parent, "folder"))
    IN  IF sourceWillBeDeleted \/ clash(src)
        THEN IF clash(tgt) THEN [Keep(w) EXCEPT !.pos = "ts_start"]
             ELSE [Keep(w) EXCEPT !.pos = "cpf", !.k = 1]
        ELSE [Keep(w) EXCEPT !.pos = "finish"]

\* createParentFolder whose refusal lets the move be synchronized at once
CpfU_refusalFallsThrough(w) ==
    LET chain == FolderChain(tree, wtgt[w])
        g == chain[wk[w]]
        callTarget == [Keep(w) EXCEPT !.pos = "sync_start", !.cur = wtgt[w]]
    IN  IF wk[w] > Len(chain)
        THEN IF tree[wtgt[w]].present THEN {callTarget}
             ELSE {callTarget, [Keep(w) EXCEPT !.pos = "finish"]}
        ELSE IF \/ haveNameClash(tree, tree[g].name, SubItems(tree, tree[g].parent, "link"))
                \/ haveNameClash(tree, tree[g].name, SubItems(tree, tree[g].parent, "file"))
             THEN {callTarget}
             ELSE {[Keep(w) EXCEPT !.pos = "sync_start", !.cur = g, !.k = wk[w] + 1]}

\* createParentFolder, outermost folder first, then synchronizeFile(targetFile).
\* When a folder of the chain turned out to be gone on the source side, its
\* sub-lists were cleared and targetFile is a dangling reference: the call
\* either works on the stale row or finds nothing to do.
CpfU(w) ==
    LET chain == FolderChain(tree, wtgt[w])
        g == chain[wk[w]]
        callTarget == [Keep(w) EXCEPT !.pos = "sync_start", !.cur = wtgt[w]]
    IN  IF wk[w] > Len(chain)
        THEN IF tree[wtgt[w]].present THEN {callTarget}
             ELSE {callTarget, [Keep(w) EXCEPT !.pos = "finish"]}
        ELSE IF \/ haveNameClash(tree, tree[g].name, SubItems(tree, tree[g].parent, "link"))
                \/ haveNameClash(tree, tree[g].name, SubItems(tree, tree[g].parent, "file"))
             THEN {[Keep(w) EXCEPT !.pos = "ts_start"]}
             ELSE {[Keep(w) EXCEPT !.pos = "sync_start", !.cur = g, !.k = wk[w] + 1]}

FreeSlots(t) == {i \in Items : t[i] = Spare}

\* setup2StepMove that leaves the target's move-ref at the old source
TwoStepU_targetKeepsRef(w) ==
    LET src == witem[w].id
        tgt == wtgt[w]
        side == getTargetDirection(tree[src].op)
        tmp == CHOOSE i \in FreeSlots(tree) : \A j \in FreeSlots(tree) : i <= j
        tempFile == [WithSide(Spare, side, sizeOf(tree[src], side))
                       EXCEPT !.present = TRUE, !.op = tree[src].op, !.ref = tgt]
    IN  [Keep(w) EXCEPT !.pos = "finish",
                        !.log = {FsOp(w, "rename", src)},
                        !.tree = [tree EXCEPT ![tmp] = tempFile,
                                              ![src] = removeObject(tree[src], side)]]

\* setup2StepMove after renameItem: a temporary row of the base folder takes
\* the source's place in the move
TwoStepU(w) ==
    LET src == witem[w].id
        tgt == wtgt[w]
        side == getTargetDirection(tree[src].op)
        tmp == CHOOSE i \in FreeSlots(tree) : \A j \in FreeSlots(tree) : i <= j
        tempFile == [WithSide(Spare, side, sizeOf(tree[src], side))
                       EXCEPT !.present = TRUE, !.op = tree[src].op, !.ref = tgt]
    IN  [Keep(w) EXCEPT !.pos = "finish",
                        !.log = {FsOp(w, "rename", src)},
                        !.tree = [tree EXCEPT ![tmp] = tempFile,
                                              ![src] = removeObject(tree[src], side),
                                              ![tgt] = [tree[tgt] EXCEPT !.ref = tmp]]]

\* prepareFileMove that clears the move-refs without fixing the total
PzFailU_noRetotal(w) ==
    [Keep(w) EXCEPT !.pos = "finish",
                    !.tree = [tree EXCEPT ![witem[w].id] = clearMoveRef(tree[witem[w].id]),
                                          ![wtgt[w]] = clearMoveRef(tree[wtgt[w]])]]

\* prepareFileMove after an IGNOREd error: both rows fall back to copy + delete
PzFailU(w) ==
    LET src == witem[w].id
        tgt == wtgt[w]
        t2 == [tree EXCEPT ![src] = clearMoveRef(tree[src]), ![tgt] = clearMoveRef(tree[tgt])]
    IN  [Keep(w) EXCEPT !.pos = "finish", !.tree = t2,
           !.tI = (ItemCUD(t2[src]) + ItemCUD(t2[tgt])) - (ItemCUD(tree[src]) + ItemCUD(tree[tgt])),
           !.tB = (ItemBytes(t2[src]) + ItemBytes(t2[tgt])) - (ItemBytes(tree[src]) + ItemBytes(tree[tgt]))]

PrepareFileMove(w) ==
    /\ wpc[w] = "run"
    /\ \/ wpos[w] = "pz_start" /\ Apply(w, PzStartU(w))
       \/ wpos[w] = "pz_fail" /\ Apply(w, PzFailU(w))

ResolveMoveConflicts(w) ==
    /\ wpc[w] = "run"
    /\ wpos[w] = "rz_start"
    /\ Apply(w, RzStartU(w))

CreateParentFolder(w) ==
    /\ wpc[w] = "run"
    /\ wpos[w] = "cpf"
    /\ \E u \in CpfU(w) : Apply(w, u)

Setup2StepMove(w) ==
    /\ wpc[w] = "run"
    /\ \/ wpos[w] = "ts_start" /\ FreeSlots(tree) # {}
            /\ Apply(w, [Release(w, "ts_ren", NoScope) EXCEPT !.logs = TRUE])
       \/ wpos[w] = "ts_ren" /\ wres[w] = "ok" /\ Apply(w, TwoStepU(w))
       \/ wpos[w] = "ts_ren" /\ wres[w] # "ok" /\ Apply(w, Fail(w))


\* ------------------------------------------------------- tryReportingError
\* for (size_t retryNumber = 0;; ++retryNumber) without the increment
nextRetryNumber_same(r) == r

\* tryReportingError: for (size_t retryNumber = 0;; ++retryNumber)
nextRetryNumber(r) == r + 1

\* reportError: interruptibleWait(conditionReadyForNewRequest_,
\* [this] { return !errorRequest_ && !errorResponse_; })
reportErrorReady == errorRequest = 0 /\ errorResponse = "none"

\* AsyncCallback::reportError: wait until the channel is free, post the request
ErrPost(w) ==
    /\ wpc[w] = "err"
    /\ wpos[w] = "err_post"
    /\ ~interrupted[w]
    /\ reportErrorReady
    /\ errorRequest' = w
    /\ reqRetry' = wretry[w]
    /\ Goto(w, "err", "err_wait")
    /\ UNCHANGED <<workFrame, tree, callVars, holds, folders, lockWork, errorResponse,
                   nerr, sumVars, ghostVars, logInfoRequest, notified, wfails, logPending>>

\* a folder's work item ending with tryReportingError
IgnoredPos_dropFolder(w) == IF witem[w].t = "prep" THEN "pz_fail" ELSE "finish"

\* IGNORE_ERROR: tryReportingError returns the message and the work item goes
\* on: prepareFileMove clears the move refs, a folder's work item calls
\* addFolderToProcess
IgnoredPos(w) ==
    CASE witem[w].t = "prep" -> "pz_fail"
      [] witem[w].t = "folder" -> "addFolder"
      [] OTHER -> "finish"

\* reportError: take the response and clear the channel; tryReportingError
\* runs the command again on RETRY and gives up on IGNORE
ErrTake(w) ==
    /\ wpc[w] = "err"
    /\ wpos[w] = "err_wait"
    /\ errorRequest = w
    /\ errorResponse # "none"
    /\ ~interrupted[w]
    /\ reqRetry' = 0
    /\ errorRequest' = 0
    /\ errorResponse' = "none"
    /\ IF errorResponse = "RETRY"
       THEN /\ wretry' = [wretry EXCEPT ![w] = nextRetryNumber(@)]
            /\ wcur' = [wcur EXCEPT ![w] = witem[w].id]
            /\ Goto(w, "run", IF witem[w].t = "prep" THEN "rz_start" ELSE "sync_start")
       ELSE /\ UNCHANGED <<wretry, wcur>>
            /\ Goto(w, "run", IgnoredPos(w))
    /\ UNCHANGED <<workFrame, tree, witem, wtgt, wk, wres, wstat, holds, folders,
                   lockWork, nerr, sumVars, ghostVars, logInfoRequest, notified, wfails,
                   logPending>>

\* ----------------------------------------------------- end of the work item
WorkItemEnd(w) ==
    /\ holds' = holds \ {w}
    /\ witem' = [witem EXCEPT ![w] = NoItem]
    /\ wcur' = [wcur EXCEPT ![w] = Base]
    /\ wtgt' = [wtgt EXCEPT ![w] = Base]
    /\ wk' = [wk EXCEPT ![w] = 0]
    /\ wretry' = [wretry EXCEPT ![w] = 0]
    /\ wfails' = [wfails EXCEPT ![w] = 0]
    /\ wsnap' = [wsnap EXCEPT ![w] = BaseEntry]
    /\ Goto(w, "next", "none")

\* addFolderToProcess returning without conditionNewWork_.notify_all()
notifyAll_none == notified

\* conditionNewWork_.notify_all(): every thread waiting in getNext is woken
notifyAll == notified \cup {v \in DOMAIN wpc : wpc[v] = "idle"}

\* Workload::addFolderToProcess, the last statement of a folder's work item
AddFolderToProcess(w) ==
    /\ wpc[w] = "run"
    /\ wpos[w] = "addFolder"
    /\ lockWork = 0
    /\ folders' = Append(folders, witem[w].id)
    /\ wiDone' = wiDone \cup {witem[w].id}
    /\ notified' = notifyAll
    /\ WorkItemEnd(w)
    /\ UNCHANGED <<workFrame, tree, wres, wstat, lockWork, chanVars, nerr, sumVars, fsLog,
                   logInfoRequest, reqRetry, logPending>>

\* the work item returns; the worker loop unlocks singleThread
Finish(w) ==
    /\ wpc[w] = "run"
    /\ wpos[w] = "finish"
    /\ WorkItemEnd(w)
    /\ UNCHANGED <<workFrame, tree, wres, wstat, folders, lockWork, chanVars, nerr,
                   sumVars, fsLog, wiDone, logInfoRequest, notified, reqRetry, logPending>>

\* ---------------------------------------------------------------------- Next
WorkerStep(w) ==
    \/ GetNextPop(w)
    \/ ExpandBegin(w)
    \/ ExpandEnd(w)
    \/ Steal(w)
    \/ GoIdle(w)
    \/ Wake(w)
    \/ Recheck(w)
    \/ WorkerExit(w)
    \/ Acquire(w)
    \/ SyncStart(w)
    \/ IoReturn(w)
    \/ SynchronizeFolderInt(w)
    \/ SynchronizeFileInt(w)
    \/ PrepareFileMove(w)
    \/ ResolveMoveConflicts(w)
    \/ CreateParentFolder(w)
    \/ Setup2StepMove(w)
    \/ ErrPost(w)
    \/ ErrTake(w)
    \/ AddFolderToProcess(w)
    \/ Finish(w)

Next ==
    \/ StartPass
    \/ MainRespond
    \/ MainLog
    \/ MainFinish
    \/ MainJoin
    \/ \E w \in Workers : WorkerStep(w)

Spec == Init /\ [][Next]_vars

SpecEdge == EdgeInit /\ [][Next]_vars

\* every thread that can take a step is scheduled: the main thread in
\* runSync / waitUntilDone and each worker thread
MainStep == StartPass \/ MainRespond \/ MainLog \/ MainFinish \/ MainJoin
SpecFair == Spec /\ WF_vars(MainStep) /\ \A w \in Workers : WF_vars(WorkerStep(w))

\* ------------------------------------------------------------ cancellation
\* waitUntilDone: cb.reportStatus or cb.reportError throws; runPass's scope
\* guards interrupt every worker and then join them
MainAbort ==
    /\ mpc = "wait"
    /\ mpc' = "unwind"
    /\ interrupted' = InterruptAll
    /\ UNCHANGED <<scn, pass, threads, tree, wpc, wpos, callVars, holds, loadVars,
                   finishNow, chanVars, nerr, sumVars, ghostVars, statVars, delVars, extVars>>

\* the join of runPass's scope guard is over; the exception leaves runSync
MainAbortJoin ==
    /\ mpc = "unwind"
    /\ JoinWorkers
    /\ mpc' = "aborted"
    /\ UNCHANGED <<scn, pass, threads, interrupted, tree, wpc, wpos, callVars, holds,
                   loadVars, finishNow, chanVars, nerr, sumVars, ghostVars, statVars, delVars, extVars>>

\* the interrupted worker is in reportError's interruptibleWait, or its work
\* item reaches reportInfo or reportDelta: ThreadInterruption unwinds the work
\* item (the reporter's scope ends in failure mode), the worker loop unlocks
\* singleThread and the thread ends
Interruption(w) ==
    /\ interrupted[w]
    /\ \/ wpc[w] = "err"
       \/ /\ wpc[w] = "run"
          /\ wpos[w] \notin {"pz_start", "pz_fail", "rz_start", "cpf", "ts_ren",
                              "addFolder", "finish"}
          /\ InterruptionPoint(CASE wpos[w] = "sync_start" ->
                                     [Keep(w) EXCEPT !.logs = (SyncStartU(w).pc = "io")]
                                  [] wpos[w] = "ts_start" -> [Keep(w) EXCEPT !.logs = TRUE]
                                  [] tree[wcur[w]].kind = "folder" -> SyncFolderU(w)
                                  [] OTHER -> SyncFileU(w))
    /\ holds' = holds \ {w}
    /\ LET x == scopeExit(wstat[w], wstat[w].on)
       IN  AddStats(0, 0, x.tI, x.tB)
    /\ wstat' = [wstat EXCEPT ![w] = NoScope]
    /\ threads' = threads \ {<<pass, w>>}
    /\ Goto(w, "term", "none")
    /\ UNCHANGED <<scn, pass, mpc, interrupted, tree, witem, wcur, wtgt, wk, wres, wretry,
                   loadVars, finishNow, chanVars, nerr, ghostVars, statVars, delVars, extVars>>

NextCancel ==
    \/ Next
    \/ MainAbort
    \/ MainAbortJoin
    \/ \E w \in Workers : Interruption(w)

\* the run of the trees with moves with a reporter that may cancel, every
\* thread scheduled fairly
CancelInit == Init /\ scn \in {"moves", "twostep"}

SpecCancel ==
    /\ CancelInit
    /\ [][NextCancel]_vars
    /\ WF_vars(MainStep \/ MainAbortJoin)
    /\ \A w \in Workers : WF_vars(WorkerStep(w) \/ Interruption(w))


\* ================================================================== claims
Started(w) == wpc[w] \in {"lock", "run", "io", "err"}

\* the work item is in a bucket or a worker is executing it
PendingItem(it) ==
    \/ \E v \in Workers : \E k \in 1..Len(bucket[v]) : bucket[v][k] = it
    \/ \E v \in Workers : Started(v) /\ witem[v] = it

\* C1: runSync runs pass 0, then 1, then 2; while a work item is executed
\* every living worker thread belongs to the current pass, and the pass
\* number only advances, by one, when no worker thread is left.
C1_PassBarrier ==
    /\ [](\A w \in Workers : Started(w) => \A t \in threads : t[1] = pass)
    /\ [](mpc = "done" => pass = PASS_TWO /\ threads = {})
    /\ [][pass' # pass => pass' = pass + 1 /\ threads = {}]_vars

C1_Witness == pass = PASS_TWO /\ \E w \in Workers : wpc[w] = "run" /\ wpos[w] = "sync_start"

\* C2: at most one worker owns singleThread; a worker inside a work item owns
\* it except while it is inside an abstract-filesystem call; and the tree
\* only changes in a step of a worker that owns it.
C2_CoreMutex ==
    /\ [](Cardinality(holds) <= 1)
    /\ [](\A w \in Workers : /\ wpc[w] \in {"run", "err"} => w \in holds
                             /\ wpc[w] \in {"io", "lock"} => w \notin holds)
    /\ [][tree' # tree => \E w \in holds : wpc[w] = "run" /\ wpc'[w] = "run"]_vars

C2_Witness ==
    \E w, v \in Workers : wpc[w] = "io" /\ wpc[v] = "run" /\ wpos[v] = "mv_ren"

\* what appendFolderLevelWorkItems reads of container c: the rows of the three
\* sub-lists and, through getPass, their operations and file sizes (in pass 0
\* no getPass of a file)
ExpandView(p, t, c) ==
    [i \in Children(t, c) |->
        IF t[i].kind = "file" /\ p = PASS_ZERO THEN <<>>
        ELSE <<t[i].op, t[i].L, t[i].R>>]

\* C3: while a worker reads a container inside getNext, no other worker
\* changes what it reads.
C3_NoReadDuringMutation ==
    [][\A w \in Workers :
          wpc[w] = "expand" /\ wpc'[w] = "expand"
              => ExpandView(pass, tree', wcur[w]) = ExpandView(pass, tree, wcur[w])]_vars

\* the folders above the targets of the input tree's moves
MoveTargetParents ==
    UNION {{FolderChain(TreeOf(scn), i)[k] : k \in 1..Len(FolderChain(TreeOf(scn), i))} :
              i \in {j \in Items : TreeOf(scn)[j].op \in MoveToOps}}

\* C4 as stated: nothing is created before pass 2.
C4_NoCreateBeforePassTwo ==
    \A o \in fsLog : o.what = "create" => o.pass = PASS_TWO

\* C4: files and symbolic links are created in pass 2 only, and so are the
\* folders created by a work item of their own; before pass 2 the only thing
\* created is, in pass 0, a folder above a move target (createParentFolder).
\* Every deletion is made in pass 1.
C4_CreateAfterDelete ==
    /\ \A o \in fsLog : o.what = "create" =>
          \/ o.pass = PASS_TWO
          \/ o.pass = PASS_ZERO /\ o.kind = "folder" /\ o.by = "prep"
                /\ o.item \in MoveTargetParents
    /\ \A o \in fsLog : o.what = "delete" => o.pass = PASS_ONE

C4_Witness ==
    /\ \E o \in fsLog : o.what = "create" /\ o.pass = PASS_TWO /\ o.kind = "file"
    /\ \E o \in fsLog : o.what = "create" /\ o.pass = PASS_TWO /\ o.kind = "folder"
    /\ \E o \in fsLog : o.what = "delete" /\ o.pass = PASS_ONE

\* C5: when a work item of an item has started, the work item of every
\* folder above it has finished: it is neither in a bucket nor being executed.
C5_FolderBeforeChildren ==
    \A w \in Workers : Started(w) =>
        \A k \in 1..Len(FolderChain(tree, witem[w].id)) :
            ~PendingItem(WI("folder", FolderChain(tree, witem[w].id)[k]))

C5_Witness ==
    /\ pass = PASS_TWO
    /\ \E w \in Workers :
          /\ Started(w)
          /\ tree[witem[w].id].parent # Base
          /\ TreeOf(scn)[tree[witem[w].id].parent].op \in CreateOps
          /\ tree[witem[w].id].parent \in wiDone


\* C6: when the run is complete, the total expected is at least the total
\* processed, for items and for bytes.
C6_TotalCoversProcessed ==
    mpc = "done" => totItems >= procItems /\ totBytes >= procBytes

\* C7 as stated: none of the four sums ever decreases.
C7_Monotone ==
    [][/\ procItems' >= procItems /\ procBytes' >= procBytes
       /\ totItems' >= totItems /\ totBytes' >= totBytes]_vars

\* C7: the processed bytes never decrease; the processed items decrease only
\* by the 1 that an overwrite takes back after the removal of the old target
\* has reported it; the totals decrease only in the step that ends an
\* operation normally (the reporter's scope exit with less reported than
\* expected), never when an operation fails.
C7_DecreaseOnlyByUndoOrScopeExit ==
    [][/\ procBytes' >= procBytes
       /\ procItems' < procItems =>
             /\ procItems' = procItems - 1
             /\ \E w \in Workers : wpos[w] = "ow_undo" /\ wpos'[w] = "ow_copy2"
                                   /\ wstat[w].ir = 1 /\ wstat'[w].ir = 0
       /\ (totItems' < totItems \/ totBytes' < totBytes) =>
             \E w \in Workers : /\ wpc[w] = "run" /\ wpc'[w] = "run"
                                /\ wpos[w] \in {"fo_probe", "fo_copy", "fo_exist", "fd_rm",
                                               "fc_copy", "fc_probe", "del_rm", "mv_ren",
                                               "ow_copy2", "meta_ren"}
                                /\ wpos'[w] \in {"addFolder", "finish", "cpf"}
                                /\ wstat'[w] = NoScope]_vars

C7_Witness ==
    /\ \E w \in Workers : wpos[w] = "ow_copy2" /\ wstat[w].ir = 0
    /\ totItems < SubStats(TreeOf(scn), Base).items


\* the rows of the input tree, their move targets, and their attributes
InputItems == {i \in Items \ {Base} : TreeOf(scn)[i].present}
MoveTargets == {i \in InputItems : TreeOf(scn)[i].op \in MoveToOps}
Attr(e) == <<e.L, e.R>>

\* the attributes of a row whose operation has been carried out
SyncedAttr(e) ==
    LET side == getTargetDirection(e.op)
        src == sizeOf(e, OtherSide(side))
    IN  CASE side = "none" -> Attr(e)
          [] e.op \in DeleteOps \cup MoveFromOps -> <<0, 0>>
          [] OTHER -> <<src, src>>

Renamed(T) == \E o \in fsLog : o.what = "rename" /\ o.item = T

\* C9 as stated: at the end of the run every move pair is either moved (T in
\* sync, F gone on that side) or untouched with both move-refs cleared.
C9_MovedOrUntouchedCleared ==
    mpc = "done" =>
      \A T \in MoveTargets : tree[T].present =>
        LET F == TreeOf(scn)[T].ref
            side == getTargetDirection(TreeOf(scn)[T].op)
        IN  \/ /\ tree[T].op = "SO_EQUAL" /\ Attr(tree[T]) = SyncedAttr(TreeOf(scn)[T])
               /\ isEmpty(tree[F], side)
            \/ /\ Attr(tree[T]) = Attr(TreeOf(scn)[T]) /\ Attr(tree[F]) = Attr(TreeOf(scn)[F])
               /\ tree[T].ref = NoRef /\ tree[F].ref = NoRef

\* C9: at the end of the run every move pair whose target row still exists is
\* in one of three states.  Moved: the file was renamed to T, T is in sync, F
\* and the interim row are gone on that side, no move-ref is left.  Pending:
\* T is untouched and paired, by mutual move-refs, with a row that still holds
\* the file: F itself, untouched, or the interim row of a two-step move, F
\* being gone on that side.  Reverted: both move-refs are cleared, nothing was
\* renamed, and F and T were handled as an independent deletion and creation.
C9_MovePairsConsistent ==
    mpc = "done" =>
      \A T \in MoveTargets : tree[T].present =>
        LET F == TreeOf(scn)[T].ref
            side == getTargetDirection(TreeOf(scn)[T].op)
            S == tree[T].ref
        IN  \/ /\ Renamed(T)
               /\ tree[T].op = "SO_EQUAL" /\ Attr(tree[T]) = SyncedAttr(TreeOf(scn)[T])
               /\ tree[T].ref = NoRef /\ tree[F].ref = NoRef
               /\ isEmpty(tree[F], side)
               /\ \A i \in Items : tree[i].present /\ tree[i].ref = T => FALSE
            \/ /\ ~Renamed(T)
               /\ S # NoRef /\ tree[S].present /\ tree[S].ref = T
               /\ tree[S].op \in MoveFromOps /\ tree[T].op \in MoveToOps
               /\ Attr(tree[T]) = Attr(TreeOf(scn)[T])
               /\ sizeOf(tree[S], side) = sizeOf(TreeOf(scn)[F], side)
               /\ \/ S = F
                  \/ /\ S \notin InputItems /\ tree[S].parent = Base
                     /\ isEmpty(tree[F], side) /\ tree[F].ref = NoRef
            \/ /\ ~Renamed(T)
               /\ tree[T].ref = NoRef /\ tree[F].ref = NoRef
               /\ tree[F].op \notin MoveFromOps /\ tree[T].op \notin MoveToOps
               /\ Attr(tree[F]) \in {Attr(TreeOf(scn)[F]), <<0, 0>>}
               /\ Attr(tree[T]) \in {Attr(TreeOf(scn)[T]), SyncedAttr(TreeOf(scn)[T]), <<0, 0>>}

C9_Witness ==
    /\ mpc = "done"
    /\ scn = "twostep"
    /\ \E T \in MoveTargets : tree[T].present /\ tree[T].ref \notin InputItems \cup {NoRef}


\* C10: at the end of the run every row of the input tree that still exists
\* has the attributes of its carried-out operation or its attributes of
\* before the run (a row that is empty on both sides because the source of
\* its CREATE was found missing counted as carried out).
C10_SyncedOrPreSync ==
    mpc = "done" =>
      \A i \in InputItems : tree[i].present =>
          Attr(tree[i]) \in {SyncedAttr(TreeOf(scn)[i]), Attr(TreeOf(scn)[i]), <<0, 0>>}

\* a position after tryReportingError has returned
AfterCommand(w) == wpos[w] \in {"pz_fail", "addFolder", "finish"}

\* C11: every FileError of a command is reported with retryNumber equal to
\* the number of failed attempts of the command before it (0, 1, 2, ...);
\* a command that did not fail reports nothing; after RETRY the command is
\* invoked again, after IGNORE the loop ends and the work item goes on to its
\* end; the worker thread never ends because of a FileError.
C11_RetryNumber ==
    /\ [](\A w \in Workers :
            /\ wpc[w] = "err" => wfails[w] = wretry[w] + 1
            /\ (errorRequest = w /\ wpos[w] = "err_wait") => reqRetry = wfails[w] - 1
            /\ errorRequest = w => wfails[w] > 0
            /\ (wpc[w] \in {"run", "io"} /\ ~AfterCommand(w)) => wfails[w] = wretry[w])
    /\ [][\A w \in Workers :
            /\ (wpos[w] = "err_wait" /\ wpos'[w] # "err_wait") =>
                 /\ errorResponse = "RETRY" =>
                      /\ wpos'[w] \in {"sync_start", "rz_start"}
                      /\ wretry'[w] = wretry[w] + 1
                 /\ errorResponse = "IGNORE" => AfterCommand(w)' /\ wpc'[w] = "run"
            /\ wpc[w] = "err" => wpc'[w] # "term"]_vars

C11_Witness ==
    \E w \in Workers : errorRequest = w /\ wpos[w] = "err_wait" /\ reqRetry = 1


\* C13: the channel holds at most one error request and at most one log
\* line; a log line is written only when the previous one was drained, an
\* error request only when there is neither a request nor an unconsumed
\* response; a pending request or response is only ever cleared, never
\* replaced.
C13_OneRequestPending ==
    /\ [](/\ logPending <= 1
          /\ logPending = 1 <=> logInfoRequest # 0
          /\ errorResponse # "none" => errorRequest # 0)
    /\ [][/\ logPending' > logPending => logInfoRequest = 0
          /\ logInfoRequest # 0 => logInfoRequest' \in {0, logInfoRequest}
          /\ errorRequest # 0 => errorRequest' \in {0, errorRequest}
          /\ errorResponse # "none" => errorResponse' \in {"none", errorResponse}
          /\ (errorRequest' # 0 /\ errorRequest' # errorRequest) =>
                errorRequest = 0 /\ errorResponse = "none"]_vars

\* a worker is about to log while the line of another worker is pending
C13_Witness ==
    /\ logInfoRequest # 0
    /\ \E w \in Workers : /\ w # logInfoRequest
                          /\ wpc[w] = "run" /\ wpos[w] = "sync_start"
                          /\ SyncStartU(w).pc = "io"

\* C12: without cancellation, an error answered with IGNORE does not unwind
\* the pass: a work item leaves the workload only by running to its end, a
\* folder whose synchronization failed is still handed to addFolderToProcess,
\* every pass started (with or without IGNOREd errors) reaches notifyAllDone
\* with all buckets and the folder queue empty, and waitUntilDone returns.
C12_IgnoreKeepsPassGoing ==
    /\ []((finishNow /\ mpc \in {"wait", "join"}) =>
            /\ AllEmpty
            /\ \A w \in Workers : wpc[w] \in {"idle", "term"}
            /\ \A i \in Items :
                 (/\ tree[i].present /\ tree[i].kind = "folder"
                  /\ pass = getPassFolder(tree[i])
                  /\ \A k \in 1..Len(FolderChain(tree, i)) :
                        tree[FolderChain(tree, i)[k]].present) => i \in wiDone)
    /\ [][\A w \in Workers :
            (Started(w) /\ ~Started(w)') =>
                wpos[w] \in {"finish", "addFolder"} /\ wpc'[w] = "next"]_vars
    /\ (mpc = "wait") ~> (mpc = "join" /\ finishNow /\ AllEmpty)

\* an error was IGNOREd in this pass and the pass has completed
C12_Witness ==
    /\ mpc = "join" /\ finishNow
    /\ \E i \in Items : /\ tree[i].present /\ tree[i].kind = "folder"
                        /\ pass = getPassFolder(tree[i]) /\ i \in wiDone

\* C14: when a callback called from waitUntilDone throws, runPass interrupts
\* every worker and then joins them all; each worker, wherever it is, ends;
\* runPass is only left when no worker thread exists and singleThread is free,
\* and the tree does not change afterwards.
C14_CancelEndsAllWorkers ==
    /\ [](mpc = "aborted" =>
            /\ \A w \in Workers : wpc[w] = "term"
            /\ threads = {} /\ holds = {})
    /\ [][/\ mpc = "aborted" => tree' = tree
          /\ (mpc = "wait" /\ mpc' = "unwind") => \A w \in Workers : interrupted'[w]]_vars
    /\ (mpc = "unwind") ~> (mpc = "aborted")

\* cancelled while one worker waits for the answer to its error request and
\* the other is inside an abstract-filesystem call
C14_Witness ==
    /\ mpc = "unwind"
    /\ \E w, v \in Workers : /\ wpc[w] = "err" /\ wpos[w] = "err_wait"
                             /\ wpc[v] \in {"io", "lock", "idle"}

\* ========================================================= SpecSteal
\* The Workload on its own with StealThreadCount workers: getNext and
\* addFolderToProcess as above, a work item reduced to taking singleThread and
\* returning (a folder's work item ends with addFolderToProcess).  A run begins
\* like a pass (the base folder queued, all buckets empty) or with thread 1
\* inside a work item and up to MaxLoad work items left in its bucket.
TreeSteal ==
    [i \in Items |->
       CASE i = 0 -> BaseEntry
         [] i = 1 -> Entry("folder", 0, 1, "SO_CREATE_NEW_RIGHT", 1, 0, NoRef)
         [] i \in {2, 3, 4} -> Entry("file", 1, i, "SO_CREATE_NEW_RIGHT", 1, 0, NoRef)
         [] i = 5 -> Entry("folder", 1, 5, "SO_CREATE_NEW_RIGHT", 1, 0, NoRef)
         [] OTHER -> Entry("file", 5, i, "SO_CREATE_NEW_RIGHT", 1, 0, NoRef)]

StealInit ==
    /\ scn = "steal"
    /\ tree = TreeSteal
    /\ pass = PASS_TWO
    /\ mpc = "wait"
    /\ threads = {<<PASS_TWO, w>> : w \in 1..StealThreadCount}
    /\ \E n \in 0..MaxLoad :
        /\ bucket = [w \in 1..StealThreadCount |->
                       IF w = 1 THEN [k \in 1..n |-> [t |-> "file", id |-> k]] ELSE <<>>]
        /\ folders = IF n = 0 THEN <<Base>> ELSE <<>>
        /\ wpc = [w \in 1..StealThreadCount |-> IF w = 1 /\ n > 0 THEN "run" ELSE "next"]
        /\ wpos = [w \in 1..StealThreadCount |-> IF w = 1 /\ n > 0 THEN "finish" ELSE "none"]
        /\ witem = [w \in 1..StealThreadCount |->
                      IF w = 1 /\ n > 0 THEN [t |-> "file", id |-> 0] ELSE NoItem]
        /\ holds = IF n > 0 THEN {1} ELSE {}
    /\ wcur = [w \in 1..StealThreadCount |-> Base]
    /\ wtgt = [w \in 1..StealThreadCount |-> Base]
    /\ wk = [w \in 1..StealThreadCount |-> 0]
    /\ wres = [w \in 1..StealThreadCount |-> "none"]
    /\ wretry = [w \in 1..StealThreadCount |-> 0]
    /\ wfails = [w \in 1..StealThreadCount |-> 0]
    /\ wstat = [w \in 1..StealThreadCount |-> NoScope]
    /\ wsnap = [w \in 1..StealThreadCount |-> BaseEntry]
    /\ interrupted = [w \in 1..StealThreadCount |-> FALSE]
    /\ lockWork = 0 /\ idleThreads = 0 /\ finishNow = FALSE /\ notified = {}
    /\ errorRequest = 0 /\ errorResponse = "none" /\ reqRetry = 0
    /\ logInfoRequest = 0 /\ logPending = 0 /\ nerr = 0
    /\ procItems = 0 /\ procBytes = 0 /\ totItems = 0 /\ totBytes = 0
    /\ fsLog = {} /\ wiDone = {}
    /\ StatIdle
    /\ DelIdle

\* the worker loop of runPass locks singleThread and calls the work item,
\* which is left out up to its last statement
StealRun(w) ==
    /\ wpc[w] = "lock"
    /\ runPassLock(w)
    /\ Goto(w, "run", IF witem[w].t = "folder" THEN "addFolder" ELSE "finish")
    /\ UNCHANGED <<mainVars, tree, callVars, loadVars, finishNow, chanVars, nerr,
                   sumVars, ghostVars, statVars, delVars, extVars>>

StealStep(w) ==
    \/ GetNextPop(w)
    \/ ExpandBegin(w)
    \/ ExpandEnd(w)
    \/ Steal(w)
    \/ GoIdle(w)
    \/ Wake(w)
    \/ Recheck(w)
    \/ StealRun(w)
    \/ AddFolderToProcess(w)
    \/ Finish(w)

StealNext == \E w \in 1..StealThreadCount : StealStep(w)

SpecSteal ==
    /\ StealInit /\ [][StealNext]_vars
    /\ \A w \in 1..StealThreadCount : WF_vars(StealStep(w))

\* a worker waits in getNext while some bucket holds work items
IdleBesideWork(w) == wpc[w] = "idle" /\ \E v \in DOMAIN bucket : bucket[v] # <<>>

C15_IdleGetsStolenItem ==
    \A w \in 1..StealThreadCount : IdleBesideWork(w) ~> (wpc[w] = "lock")

\* C15: no wake-up is lost: a worker waiting in getNext while a bucket holds
\* items or a folder is queued has been notified by addFolderToProcess since
\* its last look at the workload, and it does not wait forever: it leaves the
\* wait or the other workers have taken all the work; a worker that steals
\* takes every other item of the largest bucket and holds one of them.
C15_NoLostWakeup ==
    /\ [](\A w \in DOMAIN wpc :
            (wpc[w] = "idle" /\ ~AllEmpty /\ ~interrupted[w]) => w \in notified)
    /\ [][\A w \in DOMAIN wpc :
            (wpc[w] = "next" /\ wpc'[w] = "lock" /\ bucket[w] = <<>>) =>
                /\ folders = <<>>
                /\ \E v \in DOMAIN bucket \ {w} :
                     /\ \A x \in DOMAIN bucket : Len(bucket[x]) <= Len(bucket[v])
                     /\ Len(bucket'[v]) = Len(bucket[v]) \div 2
                     /\ Len(bucket'[w]) + 1 = (Len(bucket[v]) + 1) \div 2]_vars
    /\ \A w \in 1..StealThreadCount :
            (wpc[w] = "idle" /\ ~AllEmpty) ~> (wpc[w] # "idle" \/ AllEmpty)

\* a notified worker still waits while the bucket of another holds items
C15_Witness ==
    \E w \in DOMAIN wpc : IdleBesideWork(w) /\ w \in notified /\ lockWork = 0

\* three threads; thread 1 is still inside its work item, its bucket held 9
\* items and none of them has been run: threads 2 and 3 have each left getNext once,
\* with a stolen item
AfterOneStealEach ==
    /\ scn = "steal"
    /\ Len(bucket) = 3
    /\ folders = <<>>
    /\ wpc[1] = "run" /\ witem[1].id = 0
    /\ wpc[2] = "lock" /\ wpc[3] = "lock"
    /\ \A v \in DOMAIN bucket : \A k \in DOMAIN bucket[v] : bucket[v][k].t = "file"
    /\ UNION {{bucket[v][k].id : k \in DOMAIN bucket[v]} : v \in DOMAIN bucket}
          \cup {witem[2].id, witem[3].id} = 1..9

MaxDelFails == 2
MaxDelCalls == 3

\* AFS::TEMP_FILE_ENDING, a Zstring as a sequence of characters
TEMP_FILE_ENDING == <<".", "t">>

\* zen::endsWith
endsWith(str, term) ==
    /\ Len(str) >= Len(term)
    /\ SubSeq(str, Len(str) - Len(term) + 1, Len(str)) = term

\* the items: files 1 and 2, symlink 3, folder 4 with the files 5 and 6
DelTop == 1..4
DelAll == 1..6
DelKind(i) == CASE i \in {1, 2, 5, 6} -> "file" [] i = 3 -> "link" [] i = 4 -> "folder"
relativePath(i) ==
    CASE i = 1 -> <<"a", ".", "t">>
      [] i = 2 -> <<".", "t", "a">>
      [] i = 3 -> <<"l", ".", "t">>
      [] i = 4 -> <<"t">>
      [] i = 5 -> <<"t", "/", "b">>
      [] i = 6 -> <<"t", "/", ".", "t">>

\* the order in which the recursion over folder 4 reaches its items
FolderElements == <<5, 6, 4>>

\* removeFileWithCallback: which operation removes the file
FileRoute_policyOnly(policy, relPath) ==
    CASE policy = "PERMANENT"  -> "removeFileIfExists"
      [] policy = "RECYCLER"   -> "recycleItem"
      [] policy = "VERSIONING" -> "revisionFile"

FileRoute(policy, relPath) ==
    IF endsWith(relPath, TEMP_FILE_ENDING)
    THEN "removeFileIfExists"
    ELSE CASE policy = "PERMANENT"  -> "removeFileIfExists"
           [] policy = "RECYCLER"   -> "recycleItem"
           [] policy = "VERSIONING" -> "revisionFile"

\* removeLinkWithCallback
LinkRoute(policy) ==
    CASE policy = "PERMANENT"  -> "removeSymlinkIfExists"
      [] policy = "RECYCLER"   -> "recycleItem"
      [] policy = "VERSIONING" -> "revisionSymlink"

\* removeDirWithCallback
DirRoute(policy) ==
    CASE policy = "PERMANENT"  -> "removeFolderIfExistsRecursion"
      [] policy = "RECYCLER"   -> "recycleItem"
      [] policy = "VERSIONING" -> "revisionFolder"

RouteOf(op, i) ==
    CASE op \in {"removeFile", "overwrite"} -> FileRoute(deletionPolicy, relativePath(i))
      [] op = "removeLink" -> LinkRoute(deletionPolicy)
      [] op = "removeDir"  -> DirRoute(deletionPolicy)

\* where the old content of an item is after the operation has removed it
OldAfter(via) ==
    CASE via = "recycleItem" -> "bin"
      [] via \in {"revisionFile", "revisionSymlink", "revisionFolder"} -> "versions"
      [] OTHER -> "lost"

Recursive == {"removeFolderIfExistsRecursion", "revisionFolder"}

NoCall == [pc |-> "idle", op |-> "none", item |-> 0, via |-> "none", k |-> 0,
           res |-> "none", rm |-> "none", existed |-> FALSE, events |-> <<>>]

DelInit ==
    /\ scn = "del"
    /\ tree = TreeSteal
    /\ pass = PASS_ONE
    /\ mpc = "wait"
    /\ threads = {<<PASS_ONE, w>> : w \in Workers}
    /\ wpc = [w \in Workers |-> "run"]
    /\ wpos = [w \in Workers |-> "none"]
    /\ witem = [w \in Workers |-> NoItem]
    /\ wcur = [w \in Workers |-> Base]
    /\ wtgt = [w \in Workers |-> Base]
    /\ wk = [w \in Workers |-> 0]
    /\ wres = [w \in Workers |-> "none"]
    /\ wretry = [w \in Workers |-> 0]
    /\ wfails = [w \in Workers |-> 0]
    /\ wstat = [w \in Workers |-> NoScope]
    /\ wsnap = [w \in Workers |-> BaseEntry]
    /\ interrupted = [w \in Workers |-> FALSE]
    /\ bucket = [w \in Workers |-> <<>>]
    /\ folders = <<>>
    /\ holds = {}
    /\ lockWork = 0 /\ idleThreads = 0 /\ finishNow = FALSE /\ notified = {}
    /\ errorRequest = 0 /\ errorResponse = "none" /\ reqRetry = 0
    /\ logInfoRequest = 0 /\ logPending = 0 /\ nerr = 0
    /\ procItems = 0 /\ procBytes = 0 /\ totItems = 0 /\ totBytes = 0
    /\ fsLog = {} /\ wiDone = {}
    /\ StatIdle
    /\ deletionPolicy \in {"PERMANENT", "RECYCLER", "VERSIONING"}
    /\ recyclerSession = FALSE
    /\ versioner = FALSE
    /\ failSafeFileCopy \in BOOLEAN
    /\ verifyCopiedFiles = FALSE
    /\ \E gone \in {{}} \cup {{i} : i \in DelTop} :
         dfs = [i \in DelAll |->
                  IF i \in gone \/ (i \in {5, 6} /\ 4 \in gone)
                  THEN [path |-> "none", old |-> "lost", claimed |-> FALSE]
                  ELSE [path |-> "old", old |-> "here", claimed |-> FALSE]]
    /\ dw = [w \in Workers |-> NoCall]
    /\ handlesMade = [recycler |-> 0, versioner |-> 0, failed |-> 0]
    /\ dfails = 0
    /\ JobIdle
    /\ LocksIdle

delFrame == <<scn, tree, pass, mpc, threads, wpc, witem, wpos, wcur, wtgt, wk,
              wres, wretry, wstat, lockWork, bucket, folders,
              idleThreads, finishNow, errorRequest, errorResponse, interrupted,
              nerr, procItems, procBytes, totItems, totBytes, fsLog, wiDone,
              wsnap, logInfoRequest, notified, reqRetry, wfails, logPending, statVars,
              deletionPolicy, failSafeFileCopy, verifyCopiedFiles, jobVars, lockVars>>

DelGoto(w, r) == dw' = [dw EXCEPT ![w] = r]

\* parallelScope: singleThread.unlock()
parallelScopeEnter(w) == holds' = holds \ {w}

\* a work item begins under singleThread and calls remove*WithCallback or,
\* for an overwrite, copyFileWithCallback
DelBegin(w) ==
    /\ dw[w].pc = "idle"
    /\ Cardinality({i \in DelTop : dfs[i].claimed}) < MaxDelCalls
    /\ runPassLock(w)
    /\ \E i \in DelTop, op \in {"removeFile", "removeLink", "removeDir", "overwrite"} :
        /\ ~dfs[i].claimed
        /\ op \in (CASE DelKind(i) = "file" -> {"removeFile", "overwrite"}
                     [] DelKind(i) = "link" -> {"removeLink"}
                     [] DelKind(i) = "folder" -> {"removeDir"})
        /\ dfs' = [dfs EXCEPT ![i].claimed = TRUE]
        /\ DelGoto(w, [NoCall EXCEPT !.pc = IF op = "overwrite" THEN "ow_start" ELSE "call",
                                     !.op = op, !.item = i,
                                     !.rm = IF op = "overwrite" THEN "none" ELSE "running",
                                     !.existed = (dfs[i].path = "old")])
    /\ UNCHANGED <<delFrame, recyclerSession, versioner, handlesMade, dfails>>

\* getOrCreateRecyclerSession / getOrCreateVersioner: if (!handle)
needsConstruction_always(handle) == TRUE

needsConstruction(handle) == ~handle

HandleOf(via) == IF via = "recycleItem" THEN recyclerSession ELSE versioner

\* remove*WithCallback: the dispatch; the argument getOrCreate...() of a
\* parallel:: call is evaluated before parallelScope unlocks singleThread
DelCall(w) ==
    /\ dw[w].pc = "call"
    /\ LET via == RouteOf(dw[w].op, dw[w].item)
       IN  IF OldAfter(via) # "lost" /\ needsConstruction(HandleOf(via))
           THEN /\ DelGoto(w, [dw[w] EXCEPT !.pc = "create", !.via = via])
                /\ UNCHANGED holds
           ELSE /\ DelGoto(w, [dw[w] EXCEPT !.pc = "io", !.via = via, !.k = 1])
                /\ parallelScopeEnter(w)
    /\ UNCHANGED <<delFrame, recyclerSession, versioner, dfs, handlesMade, dfails>>

\* a FileError leaves the removal: out of onDeleteTargetFile for an overwrite
afterRemovalFailure_swallow(op) == IF op = "overwrite" THEN "ow_undo" ELSE "failed"

afterRemovalFailure(op) == IF op = "overwrite" THEN "cb_fail" ELSE "failed"

\* AFS::createRecyclerSession / FileVersioner's constructor: the handle is
\* stored, or FileError leaves the handle empty
DelCreate(w) ==
    /\ dw[w].pc = "create"
    /\ \/ /\ IF dw[w].via = "recycleItem"
             THEN /\ recyclerSession' = TRUE
                  /\ handlesMade' = [handlesMade EXCEPT !.recycler = @ + 1]
                  /\ UNCHANGED versioner
             ELSE /\ versioner' = TRUE
                  /\ handlesMade' = [handlesMade EXCEPT !.versioner = @ + 1]
                  /\ UNCHANGED recyclerSession
          /\ DelGoto(w, [dw[w] EXCEPT !.pc = "io", !.k = 1])
          /\ parallelScopeEnter(w)
          /\ UNCHANGED dfails
       \/ /\ dfails < MaxDelFails
          /\ dfails' = dfails + 1
          /\ handlesMade' = [handlesMade EXCEPT !.failed = @ + 1]
          /\ DelGoto(w, [dw[w] EXCEPT !.pc = afterRemovalFailure(dw[w].op), !.rm = "failed"])
          /\ UNCHANGED <<holds, recyclerSession, versioner>>
    /\ UNCHANGED <<delFrame, dfs>>

\* the item is taken away from its path
Removed(fs, i, via) == [fs EXCEPT ![i].path = "none", ![i].old = OldAfter(via)]

\* the operation of the abstract filesystem, the recycle session or the
\* versioner, run with singleThread unlocked.  A recursion tells
\* onBefore...Deletion / onBefore...Move about an item (reportDelta(1, 0))
\* and then removes it; revisionFile may report bytes it copied.
DelIo(w) ==
    /\ dw[w].pc = "io"
    /\ LET c == dw[w]
           i == c.item
       IN  IF c.via \in Recursive
           THEN IF dfs[i].path # "old"
                THEN /\ DelGoto(w, [c EXCEPT !.pc = "relock", !.res = "ok"])
                     /\ UNCHANGED <<dfs, dfails>>
                ELSE LET x == FolderElements[c.k]
                         told == [c EXCEPT !.events = Append(@, <<1, 0>>)]
                     IN  \/ /\ dfs' = Removed(dfs, x, c.via)
                            /\ DelGoto(w, IF c.k = Len(FolderElements)
                                          THEN [told EXCEPT !.pc = "relock", !.res = "ok"]
                                          ELSE [told EXCEPT !.k = c.k + 1])
                            /\ UNCHANGED dfails
                         \/ /\ dfails < MaxDelFails
                            /\ dfails' = dfails + 1
                            /\ DelGoto(w, [told EXCEPT !.pc = "relock", !.res = "fail"])
                            /\ UNCHANGED dfs
           ELSE \E bytes \in (IF c.via = "revisionFile" /\ dfs[i].path = "old"
                              THEN {0, 1} ELSE {0}) :
                LET told == IF bytes = 0 THEN c
                            ELSE [c EXCEPT !.events = Append(@, <<0, bytes>>)]
                IN  \/ /\ dfs' = IF dfs[i].path # "old" THEN dfs
                                 ELSE IF c.via = "recycleItem" /\ DelKind(i) = "folder"
                                 THEN Removed(Removed(Removed(dfs, 5, c.via), 6, c.via), i, c.via)
                                 ELSE Removed(dfs, i, c.via)
                       /\ DelGoto(w, [told EXCEPT !.pc = "relock", !.res = "ok"])
                       /\ UNCHANGED dfails
                    \/ /\ dfails < MaxDelFails
                       /\ dfails' = dfails + 1
                       /\ DelGoto(w, [told EXCEPT !.pc = "relock", !.res = "fail"])
                       /\ UNCHANGED dfs
    /\ UNCHANGED <<delFrame, holds, recyclerSession, versioner, handlesMade>>

\* removeFileWithCallback / removeLinkWithCallback: the closing
\* statReporter.reportDelta(1, 0); a folder given to the recycler alike
ReportRemoval_none(events) == events

ReportRemoval(events) == Append(events, <<1, 0>>)

\* parallelScope: singleThread.lock() on scope exit, then the caller goes on
\* or the FileError goes up
DelRelock(w) ==
    /\ dw[w].pc = "relock"
    /\ parallelScopeExit(w)
    /\ LET c == dw[w]
       IN  DelGoto(w,
             IF c.rm # "running"
             THEN [c EXCEPT !.pc = IF c.res = "ok" THEN "done" ELSE "failed"]
             ELSE IF c.res = "fail"
             THEN [c EXCEPT !.pc = afterRemovalFailure(c.op), !.rm = "failed"]
             ELSE IF c.via \in Recursive
             THEN [c EXCEPT !.pc = "done", !.rm = "done"]
             ELSE [c EXCEPT !.pc = "report"])
    /\ UNCHANGED <<delFrame, recyclerSession, versioner, dfs, handlesMade, dfails>>

DelReport(w) ==
    /\ dw[w].pc = "report"
    /\ DelGoto(w, [dw[w] EXCEPT !.events = ReportRemoval(@), !.rm = "done",
                                !.pc = IF dw[w].op = "overwrite" THEN "ow_undo" ELSE "done"])
    /\ UNCHANGED <<delFrame, holds, recyclerSession, versioner, dfs, handlesMade, dfails>>

\* copyFileWithCallback: parallel::copyFileTransactional unlocks singleThread
OwStart(w) ==
    /\ dw[w].pc = "ow_start"
    /\ parallelScopeEnter(w)
    /\ DelGoto(w, [dw[w] EXCEPT !.pc = "ow_copy"])
    /\ UNCHANGED <<delFrame, recyclerSession, versioner, dfs, handlesMade, dfails>>

\* AFS::copyFileTransactional up to its commit point: with failSafeFileCopy_
\* the new content is written to a temporary file first
OwCopy(w) ==
    /\ dw[w].pc = "ow_copy"
    /\ \/ /\ DelGoto(w, [dw[w] EXCEPT !.pc = "ow_cb"])
          /\ UNCHANGED dfails
       \/ /\ failSafeFileCopy
          /\ dfails < MaxDelFails
          /\ dfails' = dfails + 1
          /\ DelGoto(w, [dw[w] EXCEPT !.pc = "relock", !.res = "fail"])
    /\ UNCHANGED <<delFrame, holds, recyclerSession, versioner, dfs, handlesMade>>

\* the callback given to copyFileTransactional: lock_guard dummy(singleThread_);
\* onDeleteTargetFile() calls delHandlingTrg.removeFileWithCallback
OwCallback(w) ==
    /\ dw[w].pc = "ow_cb"
    /\ holds = {} /\ holds' = {w}
    /\ DelGoto(w, [dw[w] EXCEPT !.pc = "call", !.rm = "running",
                                !.existed = (dfs[dw[w].item].path = "old")])
    /\ UNCHANGED <<delFrame, recyclerSession, versioner, dfs, handlesMade, dfails>>

\* onDeleteTargetFile returns (reportDelta(-1, 0)) or is left by the
\* FileError; the lock_guard unlocks singleThread
OwCallbackEnd(w) ==
    /\ dw[w].pc \in {"ow_undo", "cb_fail"}
    /\ holds' = holds \ {w}
    /\ DelGoto(w, IF dw[w].pc = "ow_undo" THEN [dw[w] EXCEPT !.pc = "ow_write"]
                  ELSE [dw[w] EXCEPT !.pc = "relock", !.res = "fail"])
    /\ UNCHANGED <<delFrame, recyclerSession, versioner, dfs, handlesMade, dfails>>

\* AFS::copyFileTransactional after the callback: the new content takes the
\* target path, replacing what is there
OwWrite(w) ==
    /\ dw[w].pc = "ow_write"
    /\ LET i == dw[w].item
       IN  \/ /\ dfs' = [dfs EXCEPT ![i].path = "new",
                                    ![i].old = IF @ = "here" THEN "lost" ELSE @]
              /\ DelGoto(w, [dw[w] EXCEPT !.pc = "relock", !.res = "ok"])
              /\ UNCHANGED dfails
           \/ /\ dfails < MaxDelFails
              /\ dfails' = dfails + 1
              /\ DelGoto(w, [dw[w] EXCEPT !.pc = "relock", !.res = "fail"])
              /\ UNCHANGED dfs
    /\ UNCHANGED <<delFrame, holds, recyclerSession, versioner, handlesMade>>

\* the work item ends, with or without FileError; the worker loop unlocks
\* singleThread
DelEnd(w) ==
    /\ dw[w].pc \in {"done", "failed"}
    /\ holds' = holds \ {w}
    /\ DelGoto(w, NoCall)
    /\ UNCHANGED <<delFrame, recyclerSession, versioner, dfs, handlesMade, dfails>>

DelStep(w) ==
    \/ DelBegin(w)
    \/ DelCall(w)
    \/ DelCreate(w)
    \/ DelIo(w)
    \/ DelRelock(w)
    \/ DelReport(w)
    \/ OwStart(w)
    \/ OwCopy(w)
    \/ OwCallback(w)
    \/ OwCallbackEnd(w)
    \/ OwWrite(w)
    \/ DelEnd(w)

DelNext == \E w \in Workers : DelStep(w)

SpecDel == DelInit /\ [][DelNext]_vars

\* C17: removeFileWithCallback deletes a file whose relative path ends with
\* the temporary suffix (item 1) permanently under every deletion policy: it
\* is never given to the recycle session or to the versioner, and no handle is
\* constructed for it; a file whose path does not end with the suffix (item 2,
\* which only begins with it) goes where the policy says.
C17_TempSuffixPermanent ==
    /\ [](\A w \in DOMAIN dw :
            (dw[w].op \in {"removeFile", "overwrite"} /\ dw[w].via # "none") =>
                /\ dw[w].item = 1 => dw[w].via = "removeFileIfExists"
                /\ dw[w].item = 2 =>
                     dw[w].via = (CASE deletionPolicy = "PERMANENT"  -> "removeFileIfExists"
                                    [] deletionPolicy = "RECYCLER"   -> "recycleItem"
                                    [] deletionPolicy = "VERSIONING" -> "revisionFile"))
    /\ [][dfs # <<>> =>
            /\ (dfs[1].path = "old" /\ dfs'[1].path = "none") => dfs'[1].old = "lost"
            /\ (dfs[2].path = "old" /\ dfs'[2].path = "none") =>
                  dfs'[2].old = (CASE deletionPolicy = "PERMANENT"  -> "lost"
                                   [] deletionPolicy = "RECYCLER"   -> "bin"
                                   [] deletionPolicy = "VERSIONING" -> "versions")]_vars

\* under VERSIONING the file with the temporary suffix has been deleted for
\* good and its removal is about to be reported
C17_Witness ==
    /\ deletionPolicy = "VERSIONING"
    /\ \E w \in DOMAIN dw :
         /\ dw[w].op = "removeFile" /\ dw[w].item = 1 /\ dw[w].pc = "report"
         /\ dw[w].existed /\ dfs[1].path = "none" /\ dfs[1].old = "lost"

\* the target of an overwrite, whatever its name: its old content leaves its
\* place only into the versioning folder
C18_VersionedBeforeOverwrite ==
    [][\A w \in DOMAIN dw :
         (deletionPolicy = "VERSIONING" /\ dw[w].op = "overwrite") =>
            LET i == dw[w].item
            IN  (dfs[i].old = "here" /\ dfs'[i].old # "here") =>
                    (versioner /\ dfs'[i].old = "versions")]_vars

\* C18: when a file whose relative path does not end with the temporary
\* suffix is overwritten under VERSIONING, its old content leaves its place
\* only by the versioner's revisionFile, called from onDeleteTargetFile, which
\* begins with singleThread held; the new content takes the path only after
\* that; if the versioner or its construction fails, the old content stays in
\* place and the overwrite ends with FileError.  A target whose path ends with
\* the suffix is deleted permanently instead.
C18_VersionedUnlessTemp ==
    /\ [][\A w \in DOMAIN dw :
            (deletionPolicy = "VERSIONING" /\ dw[w].op = "overwrite") =>
               LET i == dw[w].item
               IN  (dfs[i].old = "here" /\ dfs'[i].old # "here") =>
                      IF endsWith(relativePath(i), TEMP_FILE_ENDING)
                      THEN dfs'[i].old = "lost" /\ dw[w].via = "removeFileIfExists"
                      ELSE /\ versioner /\ dfs'[i].old = "versions"
                           /\ dw[w].via = "revisionFile" /\ dw[w].rm = "running"]_vars
    /\ [](\A w \in DOMAIN dw :
            (deletionPolicy = "VERSIONING" /\ dw[w].op = "overwrite") =>
               LET i == dw[w].item
               IN  /\ dw[w].pc \in {"call", "create", "report", "ow_undo", "cb_fail"} => w \in holds
                   /\ dfs[i].path = "new" => dfs[i].old # "here"
                   /\ dw[w].rm = "failed" =>
                        /\ dw[w].pc \in {"cb_fail", "relock", "failed"}
                        /\ dw[w].res \in {"none", "fail"}
                        /\ dfs[i].path # "new"
                        /\ dw[w].existed => (dfs[i].path = "old" /\ dfs[i].old = "here"))

\* the new content is about to replace file 2, whose old content the
\* versioner has taken
C18_Witness ==
    /\ deletionPolicy = "VERSIONING"
    /\ \E w \in DOMAIN dw :
         /\ dw[w].op = "overwrite" /\ dw[w].item = 2 /\ dw[w].pc = "ow_write"
         /\ dfs[2].path = "none" /\ dfs[2].old = "versions"

\* the (itemsDelta = 1, bytesDelta = 0) events among those of a removal
ItemEvents(events) == Cardinality({k \in DOMAIN events : events[k] = <<1, 0>>})

C20_LazyHandles ==
    /\ [](/\ handlesMade.recycler <= 1 /\ handlesMade.versioner <= 1
          /\ recyclerSession <=> handlesMade.recycler = 1
          /\ versioner <=> handlesMade.versioner = 1
          /\ recyclerSession => deletionPolicy = "RECYCLER"
          /\ versioner => deletionPolicy = "VERSIONING"
          /\ \A w \in DOMAIN dw :
               (dw[w].pc = "io" /\ OldAfter(dw[w].via) # "lost") => HandleOf(dw[w].via))
    /\ [][/\ recyclerSession => recyclerSession'
          /\ versioner => versioner'
          /\ (recyclerSession' # recyclerSession \/ versioner' # versioner) =>
                \E w \in holds :
                   /\ dw[w].pc = "create" /\ dw[w].rm = "running" /\ dw'[w].pc = "io"
                   /\ OldAfter(dw[w].via) # "lost"
                   /\ ~(dw[w].op \in {"removeFile", "overwrite"} /\ dw[w].item = 1)
          /\ \A w \in DOMAIN dw :
                (dw[w].pc = "create" /\ dw'[w].pc \notin {"create", "io"}) =>
                   /\ dw'[w].rm = "failed"
                   /\ dw'[w].events = <<>>
                   /\ recyclerSession' = FALSE /\ versioner' = FALSE]_vars

\* after a failed construction the versioner exists, made once, and two
\* workers are in calls of it at the same time
C20_Witness ==
    /\ handlesMade.failed >= 1 /\ handlesMade.versioner = 1 /\ versioner
    /\ \A w \in Workers : dw # <<>> /\ dw[w].pc = "io" /\ OldAfter(dw[w].via) = "versions"

\* ====================================================== SpecStats (counters)
\* AsyncCallback's four atomic counters on their own: every worker makes up
\* to MaxDeltas updateDataProcessed / updateDataTotal calls and becomes idle;
\* the main thread runs reportStats again and again, and a last time when
\* finishNowRequest_ is set.
Counters == {"itemsProcessed", "bytesProcessed", "itemsTotal", "bytesTotal"}
ItemsOf(pair) == IF pair = "P" THEN "itemsProcessed" ELSE "itemsTotal"
BytesOf(pair) == IF pair = "P" THEN "bytesProcessed" ELSE "bytesTotal"

StatInit ==
    /\ scn = "mixed"
    /\ tree = TreeOf("mixed")
    /\ pass = PASS_TWO
    /\ mpc = "wait"
    /\ threads = {<<PASS_TWO, w>> : w \in Workers}
    /\ wpc = [w \in Workers |-> "run"]
    /\ witem = [w \in Workers |-> NoItem]
    /\ wpos = [w \in Workers |-> "none"]
    /\ wcur = [w \in Workers |-> Base]
    /\ wtgt = [w \in Workers |-> Base]
    /\ wk = [w \in Workers |-> 0]
    /\ wres = [w \in Workers |-> "none"]
    /\ wretry = [w \in Workers |-> 0]
    /\ wstat = [w \in Workers |-> NoScope]
    /\ holds = {}
    /\ lockWork = 0
    /\ bucket = [w \in Workers |-> <<>>]
    /\ folders = <<>>
    /\ idleThreads = 0
    /\ finishNow = FALSE
    /\ errorRequest = 0
    /\ errorResponse = "none"
    /\ interrupted = [w \in Workers |-> FALSE]
    /\ nerr = 0
    /\ procItems = 0 /\ procBytes = 0 /\ totItems = 0 /\ totBytes = 0
    /\ fsLog = {}
    /\ wiDone = {}
    /\ wsnap = [w \in Workers |-> BaseEntry]
    /\ logInfoRequest = 0
    /\ notified = {}
    /\ reqRetry = 0
    /\ wfails = [w \in Workers |-> 0]
    /\ logPending = 0
    /\ pending = [c \in Counters |-> 0]
    /\ forwarded = [c \in Counters |-> 0]
    /\ added = [c \in Counters |-> 0]
    /\ mread = [c \in Counters |-> 0]
    /\ mstage = "wait"
    /\ DelIdle

statFrame == <<scn, tree, pass, threads, witem, wcur, wtgt, wres, wstat, holds, lockWork,
               bucket, folders, errorRequest, errorResponse, interrupted, nerr,
               procItems, procBytes, totItems, totBytes, fsLog, wiDone, wsnap, extVars,
               delVars>>

\* updateDataProcessed / updateDataTotal, first statement: items += itemsDelta
StatAddItems(w) ==
    /\ wpc[w] = "run"
    /\ wk[w] < MaxDeltas
    /\ \E pair \in {"P", "T"} : \E d \in {<<1, 0>>, <<1, 1>>, <<-1, 0>>} :
          /\ pending' = [pending EXCEPT ![ItemsOf(pair)] = @ + d[1]]
          /\ added' = [added EXCEPT ![ItemsOf(pair)] = @ + d[1]]
          /\ wpos' = [wpos EXCEPT ![w] = pair]
          /\ wretry' = [wretry EXCEPT ![w] = d[2]]
    /\ wpc' = [wpc EXCEPT ![w] = "addBytes"]
    /\ UNCHANGED <<statFrame, mpc, wk, idleThreads, finishNow, forwarded, mread, mstage>>

\* updateDataProcessed / updateDataTotal, second statement: bytes += bytesDelta
StatAddBytes(w) ==
    /\ wpc[w] = "addBytes"
    /\ pending' = [pending EXCEPT ![BytesOf(wpos[w])] = @ + wretry[w]]
    /\ added' = [added EXCEPT ![BytesOf(wpos[w])] = @ + wretry[w]]
    /\ wpos' = [wpos EXCEPT ![w] = "none"]
    /\ wretry' = [wretry EXCEPT ![w] = 0]
    /\ wk' = [wk EXCEPT ![w] = @ + 1]
    /\ wpc' = [wpc EXCEPT ![w] = "run"]
    /\ UNCHANGED <<statFrame, mpc, idleThreads, finishNow, forwarded, mread, mstage>>

\* the worker finds no more work in getNext; the last one calls notifyAllDone
StatWorkerIdle(w) ==
    /\ wpc[w] = "run"
    /\ wpc' = [wpc EXCEPT ![w] = "idle"]
    /\ idleThreads' = idleThreads + 1
    /\ finishNow' = (finishNow \/ idleThreads + 1 = ThreadCount)
    /\ UNCHANGED <<statFrame, mpc, wpos, wk, wretry, pending, forwarded, added, mread, mstage>>

\* waitUntilDone: the wait ends by time-out, or by finishNowRequest_ for the
\* "one last call" of reportStats
StatWaitEnds ==
    /\ mstage = "wait"
    /\ mpc = "wait"
    /\ mpc' = IF finishNow THEN "final" ELSE "wait"
    /\ mstage' = "readItemsP"
    /\ UNCHANGED <<statFrame, wpc, wpos, wk, wretry, idleThreads, finishNow, pending,
                   forwarded, added, mread>>

Consume_setZero(counter, delta) == 0

\* reportStats: "careful with these atomics: don't just set to 0"
Consume(counter, delta) == counter - delta

\* reportStats, one statement at a time, for the processed pair and then for
\* the total pair: read items, read bytes, subtract both, forward to cb
StatReport ==
    /\ mstage # "wait"
    /\ LET pair == IF mstage \in {"readItemsP", "readBytesP", "subItemsP", "subBytesP", "forwardP"}
                   THEN "P" ELSE "T"
           step == SubSeq(mstage, 1, Len(mstage) - 1)
           after == IF pair = "P" THEN "readItemsT" ELSE "wait"
           I == ItemsOf(pair)
           B == BytesOf(pair)
       IN  CASE step = "readItems" ->
                  /\ mread' = [mread EXCEPT ![I] = pending[I]]
                  /\ mstage' = "readBytes" \o pair
                  /\ UNCHANGED <<pending, forwarded>>
             [] step = "readBytes" ->
                  /\ mread' = [mread EXCEPT ![B] = pending[B]]
                  /\ mstage' = IF mread[I] # 0 \/ pending[B] # 0
                               THEN "subItems" \o pair ELSE after
                  /\ UNCHANGED <<pending, forwarded>>
             [] step = "subItems" ->
                  /\ pending' = [pending EXCEPT ![I] = Consume(@, mread[I])]
                  /\ mstage' = "subBytes" \o pair
                  /\ UNCHANGED <<mread, forwarded>>
             [] step = "subBytes" ->
                  /\ pending' = [pending EXCEPT ![B] = Consume(@, mread[B])]
                  /\ mstage' = "forward" \o pair
                  /\ UNCHANGED <<mread, forwarded>>
             [] OTHER ->
                  /\ forwarded' = [forwarded EXCEPT ![I] = @ + mread[I], ![B] = @ + mread[B]]
                  /\ mread' = [mread EXCEPT ![I] = 0, ![B] = 0]
                  /\ mstage' = after
                  /\ UNCHANGED pending
    /\ mpc' = IF mstage' = "wait" /\ mpc = "final" THEN "done" ELSE mpc
    /\ UNCHANGED <<statFrame, wpc, wpos, wk, wretry, idleThreads, finishNow, added>>

StatNext ==
    \/ StatWaitEnds
    \/ StatReport
    \/ \E w \in Workers : StatAddItems(w) \/ StatAddBytes(w) \/ StatWorkerIdle(w)

SpecStats == StatInit /\ [][StatNext]_vars

\* what reportStats has subtracted from a counter and not yet forwarded
InFlight(c) ==
    CASE c = "itemsProcessed" /\ mstage \in {"subBytesP", "forwardP"} -> mread[c]
      [] c = "bytesProcessed" /\ mstage = "forwardP" -> mread[c]
      [] c = "itemsTotal" /\ mstage \in {"subBytesT", "forwardT"} -> mread[c]
      [] c = "bytesTotal" /\ mstage = "forwardT" -> mread[c]
      [] OTHER -> 0

\* C8: for each of the four counters, what was forwarded to the reporter plus
\* what is pending in the atomic counter (plus what reportStats is handing
\* over at this moment) is what the workers have added; outside the hand-over
\* nothing is in flight; and when waitUntilDone has returned through
\* finishNowRequest_ nothing is pending.
C8_NoDeltaLost ==
    /\ \A c \in Counters : forwarded[c] + pending[c] + InFlight(c) = added[c]
    /\ mstage \in {"wait", "readItemsP", "readBytesP", "subItemsP",
                   "readItemsT", "readBytesT", "subItemsT"}
          => \A c \in Counters : forwarded[c] + pending[c] = added[c]
    /\ mpc = "done" => \A c \in Counters : pending[c] = 0 /\ forwarded[c] = added[c]

C8_Witness ==
    /\ mpc = "done"
    /\ \E w \in Workers : wk[w] = MaxDeltas
    /\ forwarded["itemsProcessed"] # 0 /\ forwarded["bytesTotal"] # 0

\* ======================================== runs with verification (SpecEdge)
\* the worker leaves the verification of its copy with the FileError of
\* verifyFiles: out of the catch block of SO_CREATE_NEW when the source is
\* still there, out of copyFileWithCallback for an overwrite
VerificationThrows(w) ==
    /\ wpc[w] = "run"
    /\ \/ wpos[w] = "vf_probe" /\ wres[w] = "exists"
       \/ wpos[w] = "vf_rm" /\ wsnap[w].op \in OverwriteOps
    /\ wpos'[w] # wpos[w]

\* C21 as stated: when the FileError of a failed verification reaches
\* tryReportingError, the item's reporter and the step together have credited
\* one processed item and no processed bytes.
C21_ItemCreditedBytesReversed ==
    [][\A w \in Workers :
         VerificationThrows(w) =>
            /\ wstat[w].ir + (procItems' - procItems) = 1
            /\ wstat[w].br + (procBytes' - procBytes) = 0]_vars

\* C21: when verifyFiles fails after a copy, removeFilePlain is called on the
\* target and its outcome does not matter; the FileError reaches
\* tryReportingError, which asks the main thread (unless the source of a new
\* file has vanished); up to then the item has no processed item and the
\* source's file size as processed bytes, the failing step adds these bytes
\* to the total and nothing to the processed statistics, and the answer
\* IGNORE changes neither statistics nor tree.
C21_VerificationFailure ==
    [][\A w \in Workers :
         /\ (wpc[w] = "run" /\ wpos[w] = "vf_verify" /\ wres[w] = "error"
                /\ wpos'[w] # wpos[w])
               => wpc'[w] = "io" /\ wpos'[w] = "vf_rm" /\ tree' = tree
         /\ (wpc[w] = "run" /\ wpos[w] = "vf_rm" /\ wsnap[w].op \in CreateOps
                /\ wpos'[w] # wpos[w])
               => wpc'[w] = "io" /\ wpos'[w] = "vf_probe" /\ tree' = tree
         /\ VerificationThrows(w) =>
               /\ wpc'[w] = "err" /\ wpos'[w] = "err_post"
               /\ wstat[w].ir = 0
               /\ wstat[w].br = ItemBytes(wsnap[w])
               /\ procItems' = procItems /\ procBytes' = procBytes
               /\ totItems' = totItems
               /\ totBytes' = totBytes + ItemBytes(wsnap[w])
               /\ tree' = tree
         /\ (wpc[w] = "err" /\ wpos[w] = "err_post" /\ wpos'[w] # wpos[w])
               => errorRequest' = w
         /\ (wpc[w] = "err" /\ errorRequest = w /\ errorResponse = "IGNORE"
                /\ wpc'[w] # "err")
               => UNCHANGED <<procItems, procBytes, totItems, totBytes, tree>>]_vars

\* the verification of a new file has failed, the target has been removed and
\* the source is still there: the FileError is about to leave synchronizeFileInt
C21_Witness ==
    \E w \in Workers :
        /\ verifyCopiedFiles
        /\ wpc[w] = "run" /\ wpos[w] = "vf_probe" /\ wres[w] = "exists"
        /\ wstat[w].br > 0
        /\ \E o \in fsLog : o.what = "unlink" /\ o.item = wcur[w]

\* ====================================================== moves (C22, C23, C30)
\* the move targets of the input whose source lies in a folder that is to be
\* deleted
RescuedTargets ==
    {T \in MoveTargets :
        LET P == TreeOf(scn)[TreeOf(scn)[T].ref].parent
        IN  P # Base /\ TreeOf(scn)[P].op \in DeleteOps}

SourceParent(T) == TreeOf(scn)[TreeOf(scn)[T].ref].parent

Deleted(i) == \E o \in fsLog : o.what = "delete" /\ o.item = i

RenamedInPassZero(T) ==
    \E o \in fsLog : o.what = "rename" /\ o.item = T /\ o.pass = PASS_ZERO

PlainTargets ==
    {T \in MoveTargets \ RescuedTargets :
        LET t0 == TreeOf(scn)
            S == t0[T].ref
        IN  /\ ~haveNameClash(t0, t0[S].name, SubItems(t0, t0[S].parent, "link"))
            /\ ~haveNameClash(t0, t0[S].name, SubItems(t0, t0[S].parent, "folder"))}

\* the worker's renameItem for move target T has returned without error
RenameReturned(w, T) ==
    /\ wpc[w] = "run" /\ wpos[w] = "mv_ren" /\ wres[w] = "ok" /\ wcur[w] = T
    /\ wpos'[w] # "mv_ren"

\* C23: for a plain move pair, passes 0 and 1 perform no filesystem operation
\* on either row and leave both rows as they were; the only filesystem
\* operation ever logged for the pair is the rename of the target by its own
\* work item in pass 2; renameItem returns successfully at most once, and
\* that step reports one processed item and no bytes, changes no total, sets
\* the target in sync and empties the source row on that side; when the run
\* has ended the pair is either moved or, after an ignored error, untouched.
C23_PlainMove ==
    /\ [](\A T \in PlainTargets :
            LET t0 == TreeOf(scn)
                S == t0[T].ref
            IN  /\ pass \in {PASS_ZERO, PASS_ONE} => tree[T] = t0[T] /\ tree[S] = t0[S]
                /\ \A o \in fsLog : o.item \in {S, T} =>
                      o.what = "rename" /\ o.item = T /\ o.pass = PASS_TWO /\ o.by = "file"
                /\ mpc = "done" =>
                      \/ Renamed(T) /\ tree[T] = setSyncedTo(t0[T], getTargetDirection(t0[T].op))
                           /\ isEmpty(tree[S], getTargetDirection(t0[T].op))
                      \/ ~Renamed(T) /\ nerr > 0 /\ tree[T] = t0[T] /\ tree[S] = t0[S])
    /\ [][\A T \in PlainTargets : \A w \in Workers :
            RenameReturned(w, T) =>
               LET S == TreeOf(scn)[T].ref
                   side == getTargetDirection(TreeOf(scn)[T].op)
               IN  /\ ~Renamed(T) /\ Renamed(T)'
                   /\ procItems' = procItems + 1 /\ procBytes' = procBytes
                   /\ totItems' = totItems /\ totBytes' = totBytes
                   /\ tree'[T] = setSyncedTo(tree[T], side)
                   /\ tree'[T].op = "SO_EQUAL" /\ tree'[T].ref = NoRef
                   /\ tree'[S] = removeObject(tree[S], side)
                   /\ isEmpty(tree'[S], side)
                   /\ \A i \in Items \ {S, T} : tree'[i] = tree[i]]_vars

\* the run of the tree with the plain move 5 -> 6 has ended without any
\* error and the pair is moved
C23_Witness ==
    /\ scn = "mixed"
    /\ 6 \in PlainTargets
    /\ mpc = "done" /\ nerr = 0
    /\ Renamed(6) /\ tree[6].op = "SO_EQUAL" /\ tree[5].L = 0

\* ===================================== skipped and vanished items (C24, C25)
\* the worker enters synchronizeFolder/File/Link for a CREATE_* whose parent
\* FolderPair is empty on the target side
ParentMissing(w) ==
    /\ wpc[w] = "run" /\ wpos[w] = "sync_start"
    /\ tree[wcur[w]].op \in CreateOps
    /\ parentIsEmpty(tree, wcur[w], getTargetDirection(tree[wcur[w]].op))

\* C24: the call of a CREATE_* below a folder that is empty on the target
\* side returns at once: no abstract-filesystem call, no FileError and no
\* error request, no log line, no statistics delta, no change of the tree;
\* the worker goes on behind the call (for a folder's work item with
\* addFolderToProcess).  And nothing is ever created below a folder that is
\* empty on the target side.
C24_SilentSkip ==
    /\ [][\A w \in Workers :
            ParentMissing(w) /\ wpos'[w] # wpos[w] =>
               /\ wpc'[w] = "run"
               /\ wpos'[w] = (CASE witem[w].t = "folder" -> "addFolder"
                                [] witem[w].t = "prep" -> "cpf"
                                [] OTHER -> "finish")
               /\ holds' = holds /\ w \in holds
               /\ tree' = tree /\ fsLog' = fsLog
               /\ UNCHANGED <<procItems, procBytes, totItems, totBytes>>
               /\ UNCHANGED <<logInfoRequest, logPending, errorRequest, nerr, wfails>>
               /\ wstat'[w] = NoScope]_vars
    /\ [](\A o \in fsLog :
            o.what = "create" /\ TreeOf(scn)[o.item].parent # Base =>
               ~isEmpty(tree[TreeOf(scn)[o.item].parent],
                        getTargetDirection(TreeOf(scn)[o.item].op)))

\* the creation of folder 1 failed and was ignored; symlink 3 has been
\* skipped (its work item is at its end, nothing was logged or counted) and
\* the other worker waits for singleThread with the work item of file 2 or
\* folder 4
C24_Witness ==
    /\ scn = "skip"
    /\ isEmpty(tree[1], "R")
    /\ \E w \in Workers :
          /\ witem[w] = WI("link", 3) /\ wpc[w] = "run" /\ wpos[w] = "finish"
    /\ \E w \in Workers : wpc[w] = "lock" /\ witem[w].id \in {2, 4}
    /\ fsLog = {} /\ procItems = 0 /\ nerr = 1

\* the probe of the source of the worker's CREATE_* has found nothing
SourceVanished(w) ==
    /\ wpc[w] = "run"
    /\ wpos[w] \in {"fo_probe", "fc_probe", "vf_probe"}
    /\ wres[w] = "missing"
    /\ wpos'[w] # wpos[w]

\* work that is queued or in a worker's hands: the rows it refers to
RemainingWork ==
    UNION {{bucket[w][k].id : k \in DOMAIN bucket[w]} : w \in DOMAIN bucket}
      \cup {folders[k] : k \in DOMAIN folders}
      \cup {witem[w].id : w \in {v \in Workers : wpc[v] \in {"lock", "run", "io", "err"}}}
      \cup {wcur[w] : w \in {v \in Workers : wpc[v] \in {"run", "io", "err"}}}
      \cup {wtgt[w] : w \in {v \in Workers : wpc[v] \in {"run", "io", "err"}
                                              /\ wpos[v] \in {"cpf", "sync_start", "pz_fail"}
                                              /\ witem[v].t = "prep"}}

\* C25: when the source of a CREATE_* is found missing, the step writes a log
\* line, credits one processed item, empties the row on the source side,
\* drops the rows below a folder, raises no FileError and posts no error
\* request; and the dropped rows are out of the remaining work: no queued work
\* item, queued folder or running call refers to a row that was dropped.
C25_SourceVanished ==
    /\ [][\A w \in Workers :
            SourceVanished(w) =>
               LET i == wcur[w]
                   sideSrc == OtherSide(getTargetDirection(wsnap[w].op))
               IN  /\ logInfoRequest' = w /\ logPending' = logPending + 1
                   /\ procItems' = procItems + 1
                   /\ tree'[i] = removeObject(tree[i], sideSrc)
                   /\ isEmpty(tree'[i], sideSrc)
                   /\ \A d \in Descendants(tree, i) : ~tree'[d].present
                   /\ \A j \in Items \ (Descendants(tree, i) \cup {i}) : tree'[j] = tree[j]
                   /\ wpc'[w] = "run"
                   /\ UNCHANGED <<nerr, wfails, errorRequest, errorResponse>>]_vars
    /\ [](\A i \in RemainingWork : tree[i].present)

\* ============================================= unresolved conflicts (C26)
ConflictItems == {i \in InputItems : TreeOf(scn)[i].op = "SO_UNRESOLVED_CONFLICT"}

\* the work items that are queued or in a worker's hands
WorkItems ==
    UNION {{bucket[w][k] : k \in DOMAIN bucket[w]} : w \in DOMAIN bucket}
      \cup {witem[w] : w \in {v \in Workers : wpc[v] \in {"lock", "run", "io", "err"}}}

\* C26 as stated: no work item is ever created for an item in conflict, and
\* its row is never changed nor named in a filesystem operation.
C26_NeverDispatched ==
    \A i \in ConflictItems :
        /\ \A wi \in WorkItems : wi.id # i
        /\ tree[i] = TreeOf(scn)[i]
        /\ \A o \in fsLog : o.item # i

\* C26: the only work item ever created for an item in conflict is the
\* prepareFileMove item that pass 0 creates for every file; passes 1 and 2
\* create none, and none is created for a symlink or folder in conflict.
\* The worker that runs such an item makes no abstract-filesystem call,
\* raises no error, writes no log line and changes neither statistics nor
\* tree; the row of an item in conflict never changes and no filesystem
\* operation is performed on it.
C26_ConflictUntouched ==
    /\ [](\A i \in ConflictItems :
            /\ tree[i] = TreeOf(scn)[i]
            /\ \A o \in fsLog : o.item # i
            /\ \A wi \in WorkItems :
                  wi.id = i => wi.t = "prep" /\ pass = PASS_ZERO /\ tree[i].kind = "file"
            /\ \A w \in Workers :
                  witem[w].id = i => wpc[w] \notin {"io", "err"} /\ wstat[w] = NoScope
                                       /\ wcur[w] \in {i, Base})
    /\ [][\A w \in Workers :
            (/\ witem[w].id \in ConflictItems
             /\ wpc[w] \in {"lock", "run"}
             /\ <<wpc[w], wpos[w]>> # <<wpc'[w], wpos'[w]>>)
               => UNCHANGED <<tree, fsLog, procItems, procBytes, totItems, totBytes,
                              logPending, nerr, errorRequest>>]_vars

\* the prepareFileMove work item of file 5, which is in conflict, has run to
\* its end in pass 0
C26_Witness ==
    /\ scn = "skip"
    /\ 5 \in ConflictItems /\ 6 \in ConflictItems /\ 7 \in ConflictItems
    /\ \E w \in Workers : witem[w] = WI("prep", 5) /\ wpc[w] = "run" /\ wpos[w] = "finish"

\* ============================================================ SpecPass (C29)
\* appendFolderLevelWorkItems applied, pass after pass, to a base folder that
\* holds one row of any kind, operation and sizes
MaxSize == 2

\* the rows a comparison can produce: the operation tells which sides exist;
\* only files are moved
Rows ==
    {e \in [kind : {"file", "link", "folder"}, parent : {Base}, name : {1},
            present : {TRUE}, op : SyncOps, L : 0..MaxSize, R : 0..MaxSize,
            ref : {NoRef}] :
        /\ e.op \in MoveFromOps \cup MoveToOps => e.kind = "file"
        /\ e.op \in {"SO_CREATE_NEW_LEFT", "SO_DELETE_RIGHT", "SO_MOVE_LEFT_TO",
                     "SO_MOVE_RIGHT_FROM"} => e.L = 0 /\ e.R > 0
        /\ e.op \in {"SO_CREATE_NEW_RIGHT", "SO_DELETE_LEFT", "SO_MOVE_RIGHT_TO",
                     "SO_MOVE_LEFT_FROM"} => e.L > 0 /\ e.R = 0
        /\ e.op \in OverwriteOps \cup MetaOps \cup {"SO_EQUAL", "SO_UNRESOLVED_CONFLICT"}
              => e.L > 0 /\ e.R > 0
        /\ e.op = "SO_DO_NOTHING" => e.L > 0 \/ e.R > 0}

PassInit ==
    /\ scn = "row"
    /\ \E e \in Rows :
         tree = [i \in Items |-> IF i = Base THEN BaseEntry ELSE IF i = 1 THEN e ELSE Spare]
    /\ pass = PASS_ZERO
    /\ mpc = "wait"
    /\ threads = {<<PASS_ZERO, 1>>}
    /\ wpc = [w \in Workers |-> "next"]
    /\ wpos = [w \in Workers |-> "none"]
    /\ witem = [w \in Workers |-> NoItem]
    /\ wcur = [w \in Workers |-> Base]
    /\ wtgt = [w \in Workers |-> Base]
    /\ wk = [w \in Workers |-> 0]
    /\ wres = [w \in Workers |-> "none"]
    /\ wretry = [w \in Workers |-> 0]
    /\ wfails = [w \in Workers |-> 0]
    /\ wstat = [w \in Workers |-> NoScope]
    /\ wsnap = [w \in Workers |-> BaseEntry]
    /\ interrupted = [w \in Workers |-> FALSE]
    /\ bucket = [w \in Workers |-> <<>>]
    /\ folders = <<Base>>
    /\ holds = {}
    /\ lockWork = 0 /\ idleThreads = 0 /\ finishNow = FALSE /\ notified = {}
    /\ errorRequest = 0 /\ errorResponse = "none" /\ reqRetry = 0
    /\ logInfoRequest = 0 /\ logPending = 0 /\ nerr = 0
    /\ procItems = 0 /\ procBytes = 0 /\ totItems = 0 /\ totBytes = 0
    /\ fsLog = {} /\ wiDone = {}
    /\ StatIdle
    /\ DelIdle

passFrame == <<scn, tree, mpc, threads, wpc, witem, wpos, wcur, wtgt, wk, wres, wretry,
               wstat, holds, lockWork, idleThreads, finishNow, errorRequest,
               errorResponse, interrupted, nerr, procItems, procBytes, totItems,
               totBytes, wiDone, wsnap, extVars, statVars, delVars>>

\* Workload::getNext: the queued base folder is replaced by its work items
\* and sub-folders.  fsLog records the work items that were appended.
PassAppend ==
    /\ folders = <<Base>>
    /\ bucket' = [bucket EXCEPT ![1] = NewWorkItems(pass, tree, Base)]
    /\ folders' = NewFolders(pass, tree, Base)
    /\ fsLog' = fsLog \cup
                  {[what |-> "append", kind |-> tree[wi.id].kind, item |-> wi.id,
                    pass |-> pass, by |-> wi.t] :
                     wi \in {NewWorkItems(pass, tree, Base)[k] :
                               k \in DOMAIN NewWorkItems(pass, tree, Base)}}
    /\ UNCHANGED <<pass, passFrame>>

\* runSync: the next runPass starts with the base folder queued
PassAdvance ==
    /\ folders # <<Base>>
    /\ pass < PASS_TWO
    /\ pass' = pass + 1
    /\ bucket' = [w \in Workers |-> <<>>]
    /\ folders' = <<Base>>
    /\ UNCHANGED <<fsLog, passFrame>>

PassNext == PassAppend \/ PassAdvance

SpecPass == PassInit /\ [][PassNext]_vars

\* the pass of the table as the claim states it ("everything else" of a
\* symlink or folder is pass 2); for a file the operations the table does not
\* name are left to "never"
TableAsStated(e) ==
    IF e.kind = "file"
    THEN CASE e.op \in DeleteOps -> PASS_ONE
           [] e.op = "SO_OVERWRITE_LEFT" -> IF e.L > e.R THEN PASS_ONE ELSE PASS_TWO
           [] e.op = "SO_OVERWRITE_RIGHT" -> IF e.R > e.L THEN PASS_ONE ELSE PASS_TWO
           [] e.op \in MoveToOps -> PASS_TWO
           [] e.op \in MoveFromOps -> PASS_NEVER
           [] e.op \in CreateOps \cup MetaOps -> PASS_TWO
           [] OTHER -> PASS_NEVER
    ELSE IF e.op \in DeleteOps THEN PASS_ONE ELSE PASS_TWO

\* the table with DO_NOTHING, EQUAL and UNRESOLVED_CONFLICT mapped to "never"
\* for every kind
TableAmended(e) ==
    IF e.op \in IdleOps THEN PASS_NEVER ELSE TableAsStated(e)

\* the work items appended for row 1 in the pass whose expansion is done
AppendedNow == {o \in fsLog : o.item = 1 /\ o.pass = pass}

\* C29 as stated: in pass 1 and in pass 2 the row gets a work item exactly if
\* the table as stated gives that pass.
C29_TableAsStated ==
    (folders # <<Base>> /\ pass \in {PASS_ONE, PASS_TWO}) =>
        (AppendedNow # {} <=> TableAsStated(tree[1]) = pass)

\* C29: in pass 1 and in pass 2 the row gets a work item for synchronizeFile /
\* Link / Folder exactly if the amended table gives that pass; pass 0 gives a
\* prepareFileMove item to every file and nothing else; a folder that gets no
\* work item is queued for traversal; over the three passes the row gets a
\* synchronize work item in at most one pass.
C29_PassTable ==
    /\ folders # <<Base>> =>
         /\ pass \in {PASS_ONE, PASS_TWO} =>
               /\ AppendedNow # {} <=> TableAmended(tree[1]) = pass
               /\ \A o \in AppendedNow : o.by = tree[1].kind
         /\ pass = PASS_ZERO =>
               /\ AppendedNow # {} <=> tree[1].kind = "file"
               /\ \A o \in AppendedNow : o.by = "prep"
         /\ tree[1].kind = "folder" => (folders = <<1>> <=> AppendedNow = {})
         /\ Len(bucket[1]) = Cardinality(AppendedNow)
    /\ Cardinality({o.pass : o \in {x \in fsLog : x.by # "prep"}}) <= 1

\* a file that an overwrite makes smaller got its work item in pass 1 and
\* none in pass 2
C29_Witness ==
    /\ tree[1].kind = "file" /\ tree[1].op = "SO_OVERWRITE_LEFT" /\ tree[1].L > tree[1].R
    /\ pass = PASS_TWO /\ folders # <<Base>>
    /\ bucket[1] = <<>>
    /\ \E o \in fsLog : o.pass = PASS_ONE /\ o.by = "file"

\* ------------------------------------------------ pass-0 failure recovery
\* the move target of the input has fallen back to an ordinary creation
Reverted(T) ==
    \/ tree[T].op \in CreateOps
    \/ \E o \in fsLog : o.what = "create" /\ o.item = T

\* C30: prepareFileMove reaches its error branch only in pass 0 after the
\* command failed; the step clears the move-ref of both rows, which makes the
\* source a DELETE_* (getPass: pass 1) and the target a CREATE_* (pass 2),
\* adds one item and the target's source-side file size to the total and
\* nothing to the processed statistics, and changes no other row.  For a
\* pair that has fallen back no rename is ever performed: the only
\* filesystem operations on the source row are deletions by its work item in
\* pass 1, the only ones on the target row creations by its work item in
\* pass 2.
C30_FailureRecovery ==
    /\ [](\A w \in Workers :
            wpc[w] = "run" /\ wpos[w] = "pz_fail" =>
               /\ pass = PASS_ZERO /\ witem[w].t = "prep"
               /\ wfails[w] > 0 /\ nerr > 0
               /\ TreeOf(scn)[witem[w].id].op \in MoveFromOps
               /\ wtgt[w] = TreeOf(scn)[witem[w].id].ref)
    /\ [][\A w \in Workers :
            (wpc[w] = "run" /\ wpos[w] = "pz_fail" /\ wpos'[w] # "pz_fail") =>
               LET S == witem[w].id
                   T == wtgt[w]
                   side == getTargetDirection(tree[T].op)
               IN  /\ tree'[S].ref = NoRef /\ tree'[T].ref = NoRef
                   /\ tree'[S].op \in DeleteOps /\ tree'[T].op \in CreateOps
                   /\ getTargetDirection(tree'[S].op) = side
                   /\ getTargetDirection(tree'[T].op) = side
                   /\ getPassFile(tree'[S]) = PASS_ONE
                   /\ getPassFile(tree'[T]) = PASS_TWO
                   /\ totItems' = totItems + 1
                   /\ totBytes' = totBytes + sizeOf(tree[T], OtherSide(side))
                   /\ procItems' = procItems /\ procBytes' = procBytes
                   /\ \A i \in Items \ {S, T} : tree'[i] = tree[i]
                   /\ fsLog' = fsLog]_vars
    /\ [](\A T \in MoveTargets :
            Reverted(T) =>
               LET S == TreeOf(scn)[T].ref
               IN  /\ \A o \in fsLog :
                        /\ o.item = T => o.what = "create" /\ o.pass = PASS_TWO /\ o.by = "file"
                        /\ o.item = S => o.what = "delete" /\ o.pass = PASS_ONE /\ o.by = "file"
                   /\ tree[T].ref = NoRef /\ tree[S].ref = NoRef
                   /\ tree[S].op \notin MoveFromOps)

\* the run of the tree "a -> a/a" has ended: the move failed in pass 0 and
\* was ignored, the source was deleted in pass 1 and the target created in
\* pass 2
C30_Witness ==
    /\ scn = "twostep"
    /\ mpc = "done" /\ nerr = 1
    /\ \E o \in fsLog : o.what = "delete" /\ o.item = 1 /\ o.pass = PASS_ONE
    /\ \E o \in fsLog : o.what = "create" /\ o.item = 3 /\ o.pass = PASS_TWO
    /\ \A o \in fsLog : o.what # "rename"
    /\ tree[3].op = "SO_EQUAL"

\* ------------------------------------------------ fff::synchronize
\* The loop over the folder pairs: the basic checks that decide jobType, and
\* per pair the second drop check, the base folders, runSync between the
\* construction of the two DeletionHandlings and their clean-up, and the
\* database.  runSync itself is one step here (its outcome: returned, or left
\* by the callback's exception X); the warnings between the checks and the
\* loop change no state of the loop.
NumPairs == 2
Pairs == 1..NumPairs

\* configuration and statistics of a folder pair, as far as the checks read
\* them.  inSync: getCUD(folderPairStat) = 0; emptyTarget: a side with a null
\* path would be written (or gets the database); sourceMissing: a side with
\* a path was not available at the comparison and deletions are to be made;
\* versioningNull: the versioning folder phrase is a null path; creates:
\* createCount() > 0.
PairCfgs ==
    {c \in [pathsEqual : BOOLEAN, inSync : BOOLEAN, emptyTarget : BOOLEAN,
            sourceMissing : BOOLEAN, creates : BOOLEAN,
            handleDeletion : {"PERMANENT", "RECYCLER", "VERSIONING"},
            versioningNull : BOOLEAN, saveSyncDB : BOOLEAN] :
        /\ c.inSync => ~c.sourceMissing /\ ~c.creates
        /\ c.emptyTarget /\ c.inSync => c.saveSyncDB
        /\ c.versioningNull => c.handleDeletion = "VERSIONING"}

JobInit ==
    /\ scn = "job"
    /\ tree = [i \in Items |-> IF i = Base THEN BaseEntry ELSE Spare]
    /\ pass = PASS_ZERO
    /\ mpc = "start"
    /\ threads = {}
    /\ wpc = [w \in Workers |-> "term"]
    /\ wpos = [w \in Workers |-> "none"]
    /\ witem = [w \in Workers |-> NoItem]
    /\ wcur = [w \in Workers |-> Base]
    /\ wtgt = [w \in Workers |-> Base]
    /\ wk = [w \in Workers |-> 0]
    /\ wres = [w \in Workers |-> "none"]
    /\ wretry = [w \in Workers |-> 0]
    /\ wfails = [w \in Workers |-> 0]
    /\ wstat = [w \in Workers |-> NoScope]
    /\ wsnap = [w \in Workers |-> BaseEntry]
    /\ interrupted = [w \in Workers |-> FALSE]
    /\ bucket = [w \in Workers |-> <<>>]
    /\ folders = <<>>
    /\ holds = {}
    /\ lockWork = 0 /\ idleThreads = 0 /\ finishNow = FALSE /\ notified = {}
    /\ errorRequest = 0 /\ errorResponse = "none" /\ reqRetry = 0
    /\ logInfoRequest = 0 /\ logPending = 0 /\ nerr = 0
    /\ procItems = 0 /\ procBytes = 0 /\ totItems = 0 /\ totBytes = 0
    /\ fsLog = {} /\ wiDone = {}
    /\ StatIdle
    /\ verifyCopiedFiles = FALSE
    /\ deletionPolicy = "PERMANENT"
    /\ recyclerSession = FALSE
    /\ versioner = FALSE
    /\ failSafeFileCopy = TRUE
    /\ dfs = <<>>
    /\ dw = <<>>
    /\ handlesMade = [recycler |-> 0, versioner |-> 0, failed |-> 0]
    /\ dfails = 0
    /\ folderPairCfg \in [Pairs -> PairCfgs]
    \* std::vector<FolderPairJobType> jobType(folderCmp.size(), PROCESS)
    /\ jobType = [p \in Pairs |-> "PROCESS"]
    /\ jpc = "check"
    /\ folderIndex = 1
    /\ jexc = "none"
    /\ jretry = 0
    /\ session = {}
    /\ jlog = {}
    /\ LocksIdle

jobFrame == <<engineVars, statVars, deletionPolicy, recyclerSession, versioner,
              failSafeFileCopy, dfs, dw, handlesMade, dfails, verifyCopiedFiles,
              folderPairCfg, lockVars>>

Ev(e, p, what) == [ev |-> e, pair |-> p, what |-> what]

\* the basic checks of one folder pair, in the order of the code; drop tells
\* whether baseFolderDrop returned true.  The result is the job type and the
\* fatal error that is reported ("none": no fatal error).
PreFlight_versioningUnchecked(c, drop) ==
    IF c.pathsEqual THEN [type |-> "SKIP", fatal |-> "none"]
    ELSE IF c.inSync THEN [type |-> "ALREADY_IN_SYNC", fatal |-> "none"]
    ELSE IF c.emptyTarget THEN [type |-> "SKIP", fatal |-> "emptyTarget"]
    ELSE IF drop THEN [type |-> "SKIP", fatal |-> "none"]
    ELSE IF c.sourceMissing THEN [type |-> "SKIP", fatal |-> "sourceMissing"]
    ELSE [type |-> "PROCESS", fatal |-> "none"]

PreFlight(c, drop) ==
    IF c.pathsEqual THEN [type |-> "SKIP", fatal |-> "none"]
    ELSE IF c.inSync THEN [type |-> "ALREADY_IN_SYNC", fatal |-> "none"]
    ELSE IF c.emptyTarget THEN [type |-> "SKIP", fatal |-> "emptyTarget"]
    ELSE IF drop THEN [type |-> "SKIP", fatal |-> "none"]
    ELSE IF c.sourceMissing THEN [type |-> "SKIP", fatal |-> "sourceMissing"]
    ELSE IF c.handleDeletion = "VERSIONING" /\ c.versioningNull
         THEN [type |-> "SKIP", fatal |-> "versioning"]
    ELSE [type |-> "PROCESS", fatal |-> "none"]

\* baseFolderDrop is reached by the checks of this pair
DropChecked(c) == ~c.pathsEqual /\ ~c.inSync /\ ~c.emptyTarget

\* the pre-flight loop body for folderIndex.  baseFolderDrop goes through
\* tryReportingError: "dropped" is an error that the user ignored, "X" the
\* callback's exception, which leaves fff::synchronize before the execution
\* loop ("cancelled").
JobCheck ==
    /\ jpc = "check"
    /\ \E drop \in {"ok", "dropped", "X"} :
         LET c == folderPairCfg[folderIndex]
             r == PreFlight(c, drop = "dropped")
         IN  /\ drop # "ok" => DropChecked(c)
             /\ IF drop = "X"
                THEN /\ jpc' = "cancelled"
                     /\ jexc' = "X"
                     /\ jlog' = jlog \cup {Ev("error", folderIndex, "drop")}
                     /\ UNCHANGED <<jobType, folderIndex>>
                ELSE /\ jobType' = [jobType EXCEPT ![folderIndex] = r.type]
                     /\ jlog' = jlog
                          \cup (IF drop = "dropped"
                                THEN {Ev("error", folderIndex, "drop")} ELSE {})
                          \cup (IF r.fatal # "none"
                                THEN {Ev("fatal", folderIndex, r.fatal)} ELSE {})
                     /\ IF folderIndex = NumPairs
                        THEN jpc' = "loop" /\ folderIndex' = 1
                        ELSE jpc' = jpc /\ folderIndex' = folderIndex + 1
                     /\ jexc' = jexc
    /\ UNCHANGED <<jretry, session, jobFrame>>

\* the head of the execution loop: the end of the loop, the SKIP test, the
\* log line, the second baseFolderDrop and createBaseFolder
JobBegin ==
    /\ jpc = "loop"
    /\ IF folderIndex > NumPairs
       THEN jpc' = "done" /\ UNCHANGED <<folderIndex, jexc, jlog>>
       ELSE IF jobType[folderIndex] = "SKIP"
       THEN folderIndex' = folderIndex + 1 /\ UNCHANGED <<jpc, jexc, jlog>>
       ELSE \E drop \in {"ok", "dropped", "X"}, base \in {"ok", "failed", "X"} :
              LET c == folderPairCfg[folderIndex]
                  info == {Ev("info", folderIndex, "begin")}
              IN  /\ base # "ok" => drop = "ok" /\ (c.creates \/ c.saveSyncDB)
                  /\ IF drop = "X" \/ base = "X"
                     THEN /\ jpc' = "aborted" /\ jexc' = "X"
                          /\ jlog' = jlog \cup info
                                       \cup {Ev("error", folderIndex,
                                                IF drop = "X" THEN "drop2" ELSE "base")}
                          /\ folderIndex' = folderIndex
                     ELSE IF drop = "dropped" \/ base = "failed"
                     THEN /\ folderIndex' = folderIndex + 1
                          /\ jlog' = jlog \cup info
                                       \cup {Ev("error", folderIndex,
                                                IF drop = "dropped" THEN "drop2" ELSE "base")}
                          /\ UNCHANGED <<jpc, jexc>>
                     ELSE /\ jpc' = IF jobType[folderIndex] = "PROCESS" THEN "sync" ELSE "db"
                          /\ jlog' = jlog \cup info
                          /\ UNCHANGED <<folderIndex, jexc>>
    /\ UNCHANGED <<jobType, jretry, session, jobFrame>>

\* guardDbSave dismissed before the graceful write is tried
DbGuard_dismissed(p) == {}

\* what leaves the scope of a folder pair by exception: guardDbSave
DbGuard(p) == IF folderPairCfg[p].saveSyncDB THEN {Ev("saveDb", p, "guard")} ELSE {}

\* the PROCESS block up to runSync: supportPermissionCopy (whose error prompt
\* may throw X, before the handlers exist), the two DeletionHandlings, the
\* clean-up scope guard and runSync.  A recycler session comes into being
\* with the first deletion of a side.
JobRunSync ==
    /\ jpc = "sync"
    /\ \E out \in {"permX", "ok", "X"},
          s \in SUBSET {"L", "R"} :
         /\ s # {} => out # "permX" /\ folderPairCfg[folderIndex].handleDeletion = "RECYCLER"
         /\ IF out = "permX"
            THEN /\ jpc' = "aborted" /\ jexc' = "X"
                 /\ jlog' = jlog \cup {Ev("removeEmpty", folderIndex, "-")}
                                 \cup DbGuard(folderIndex)
            ELSE /\ jpc' = IF out = "ok" THEN "cleanupL" ELSE "guardL"
                 /\ jexc' = IF out = "ok" THEN "none" ELSE "X"
                 /\ jlog' = jlog \cup {Ev("runSync", folderIndex, "-")}
         /\ session' = s
    /\ jretry' = 0
    /\ UNCHANGED <<jobType, folderIndex, jobFrame>>

\* DeletionHandling::tryCleanup: the outcomes of a call.  Only a recycler
\* session does anything; its status callback's exception gets out only when
\* allowCallbackException is set.
tryCleanup(policy, hasSession, allowCallbackException) ==
    IF policy = "RECYCLER" /\ hasSession
    THEN {"ok", "FileError"} \cup (IF allowCallbackException THEN {"X"} ELSE {})
    ELSE {"ok"}

\* the graceful clean-up after runSync has returned:
\* tryReportingError([&] { delHandler.tryCleanup(callback, true); }, callback)
JobCleanup ==
    /\ jpc \in {"cleanupL", "cleanupR"}
    /\ LET side == IF jpc = "cleanupL" THEN "L" ELSE "R"
           c == folderPairCfg[folderIndex]
           call == {Ev("tryCleanup", folderIndex, side)}
           on == IF jpc = "cleanupL" THEN "cleanupR" ELSE "guardL"
       IN  \E res \in tryCleanup(c.handleDeletion, side \in session, TRUE),
              resp \in {"IGNORE", "RETRY", "X"} :
             /\ res # "FileError" => resp = "IGNORE"
             /\ resp = "RETRY" => jretry < MaxRetries
             /\ IF res = "X" \/ resp = "X"
                THEN jpc' = "guardL" /\ jexc' = "X" /\ jretry' = 0
                ELSE IF resp = "RETRY"
                THEN jpc' = jpc /\ jexc' = jexc /\ jretry' = jretry + 1
                ELSE jpc' = on /\ jexc' = jexc /\ jretry' = 0
             /\ jlog' = jlog \cup call
                          \cup (IF res = "FileError"
                                THEN {Ev("cleanupFailed", folderIndex, side),
                                      Ev("error", folderIndex, side)}
                                ELSE {})
    /\ UNCHANGED <<jobType, folderIndex, session, jobFrame>>

\* the exception in flight after a call of the scope guard: catch (FileError&) {}
tryCleanupGuarded_rethrown(res, exc) == IF res = "FileError" THEN "FileError" ELSE exc

tryCleanupGuarded(res, exc) == exc

\* ZEN_ON_SCOPE_EXIT of the PROCESS block, run when the block is left either
\* way: tryCleanup(callback, false) on the left and then on the right
\* handler; after it removeEmpty and, when an exception is in flight,
\* guardDbSave
JobGuard ==
    /\ jpc \in {"guardL", "guardR"}
    /\ LET side == IF jpc = "guardL" THEN "L" ELSE "R"
           c == folderPairCfg[folderIndex]
       IN  \E res \in tryCleanup(c.handleDeletion, side \in session, FALSE) :
             LET exc == tryCleanupGuarded(res, jexc)
                 call == {Ev("guardCleanup", folderIndex, side)}
                           \cup (IF res = "FileError"
                                 THEN {Ev("guardFailed", folderIndex, side)} ELSE {})
             IN  /\ jexc' = exc
                 /\ IF jpc = "guardL"
                    THEN jpc' = "guardR" /\ jlog' = jlog \cup call
                    ELSE /\ jpc' = IF exc = "none" THEN "db" ELSE "aborted"
                         /\ jlog' = jlog \cup call
                                      \cup {Ev("removeEmpty", folderIndex, "-")}
                                      \cup (IF exc = "none" THEN {} ELSE DbGuard(folderIndex))
    /\ UNCHANGED <<jobType, folderIndex, jretry, session, jobFrame>>

\* the database write at the end of the pair's scope: reportStatus,
\* forceUiRefresh (may throw X), tryReportingError(saveLastSynchronousState)
\* whose status callback may throw X, then guardDbSave.dismiss().  An X
\* leaves the scope with guardDbSave armed.
JobSaveDb ==
    /\ jpc = "db"
    /\ LET p == folderIndex
           c == folderPairCfg[p]
       IN  IF ~c.saveSyncDB
           THEN /\ jpc' = "loop" /\ folderIndex' = p + 1
                /\ UNCHANGED <<jexc, jlog, jretry>>
           ELSE \E out \in {"uiX", "ok", "saveX", "FileError"},
                   resp \in {"IGNORE", "RETRY", "X"} :
                  LET attempt == IF out = "uiX" THEN {} ELSE {Ev("saveDb", p, "graceful")}
                      failed == IF out = "FileError" THEN {Ev("error", p, "db")} ELSE {}
                  IN  /\ out # "FileError" => resp = "IGNORE"
                      /\ out = "uiX" => jretry = 0
                      /\ resp = "RETRY" => jretry < MaxRetries
                      /\ IF out \in {"uiX", "saveX"} \/ resp = "X"
                         THEN /\ jpc' = "aborted" /\ jexc' = "X" /\ jretry' = 0
                              /\ jlog' = jlog \cup attempt \cup failed \cup DbGuard(p)
                              /\ folderIndex' = p
                         ELSE IF resp = "RETRY"
                         THEN /\ jpc' = jpc /\ jexc' = jexc /\ jretry' = jretry + 1
                              /\ jlog' = jlog \cup attempt \cup failed
                              /\ folderIndex' = p
                         ELSE /\ jpc' = "loop" /\ jexc' = jexc /\ jretry' = 0
                              /\ jlog' = jlog \cup attempt \cup failed
                              /\ folderIndex' = p + 1
    /\ session' = IF jpc' = "db" THEN session ELSE {}
    /\ UNCHANGED <<jobType, jobFrame>>

JobNext == JobCheck \/ JobBegin \/ JobRunSync \/ JobCleanup \/ JobGuard \/ JobSaveDb

SpecJob == JobInit /\ [][JobNext]_vars

\* ------------------------------------------------ post-sync clean-up
\* runSync was invoked for the pair
SyncStarted(p) == Ev("runSync", p, "-") \in jlog

\* the PROCESS block of the pair has been left, by return or by exception
BlockLeft(p) ==
    /\ SyncStarted(p)
    /\ \/ folderIndex > p
       \/ jpc \in {"db", "loop", "done", "aborted"}

\* C27: for every folder pair for which runSync was invoked, by the time its
\* block is left (runSync returned, or an exception X is leaving) the scope
\* guard has called tryCleanup on the left and on the right handler.  A
\* FileError of tryCleanup never becomes the exception in flight: the guard's
\* call leaves the exception as it was, and after the graceful call only the
\* answer of the error prompt decides (on IGNORE the loop goes on).  So the
\* only exception that ever leaves is the callback's X, and a run that no X
\* has ended begins every folder pair that is not skipped.
C27_CleanupNeverFatal ==
    /\ [](jexc \in {"none", "X"})
    /\ [](jpc = "aborted" => jexc = "X")
    /\ [](\A p \in Pairs :
            BlockLeft(p) => /\ Ev("guardCleanup", p, "L") \in jlog
                            /\ Ev("guardCleanup", p, "R") \in jlog)
    /\ [][/\ (jpc \in {"guardL", "guardR"} => jexc' = jexc)
          /\ (jpc = "guardL" => jpc' = "guardR")
          /\ (jpc = "guardR" => jpc' = IF jexc = "none" THEN "db" ELSE "aborted")
          /\ (jpc \in {"cleanupL", "cleanupR"} /\ jexc' = "none" =>
                jpc' \in {jpc, IF jpc = "cleanupL" THEN "cleanupR" ELSE "guardL"})]_vars
    /\ [](jpc = "done" =>
            \A p \in Pairs : jobType[p] # "SKIP" => Ev("info", p, "begin") \in jlog)

\* the run has ended normally although both handlers of the first folder
\* pair failed to clean up (gracefully and in the scope guard), and runSync
\* was invoked for the second pair after that
C27_Witness ==
    /\ jpc = "done"
    /\ SyncStarted(1) /\ SyncStarted(2)
    /\ Ev("cleanupFailed", 1, "L") \in jlog
    /\ Ev("guardFailed", 1, "L") \in jlog
    /\ Ev("guardFailed", 1, "R") \in jlog

\* ------------------------------------------------ pre-flight checks
\* the basic checks of the pair are over
Checked(p) ==
    \/ jpc \notin {"check", "off", "cancelled"}
    \/ jpc \in {"check", "cancelled"} /\ folderIndex > p

\* the pair was found dropped by the basic checks
DroppedAtCheck(p) == Checked(p) /\ Ev("error", p, "drop") \in jlog

\* a policy violation that the basic checks of the pair come to
Violation(c, dropped) ==
    IF ~DropChecked(c) THEN (IF c.emptyTarget /\ ~c.pathsEqual /\ ~c.inSync
                             THEN "emptyTarget" ELSE "none")
    ELSE IF dropped THEN "none"
    ELSE IF c.sourceMissing THEN "sourceMissing"
    ELSE IF c.handleDeletion = "VERSIONING" /\ c.versioningNull THEN "versioning"
    ELSE "none"

\* one of the conditions of the list holds for the pair
FailsCheck(c, dropped) ==
    \/ c.pathsEqual
    \/ c.emptyTarget
    \/ dropped
    \/ c.sourceMissing
    \/ c.handleDeletion = "VERSIONING" /\ c.versioningNull

\* the calls that touch the items of a pair
Touches(p) == {e \in jlog : e.pair = p /\ e.ev \in {"runSync", "removeEmpty", "tryCleanup",
                                                    "guardCleanup"}}

\* C28: once the basic checks of a folder pair are over, the pair has job
\* type SKIP exactly if its paths are equal or, for a pair with something to
\* do, its target path is empty, it was found dropped, its source folder was
\* missing with deletions pending, or it uses versioning without a folder;
\* the fatal errors reported for the pair are exactly the policy violation
\* found (none for equal paths and for a drop, which is reported as an
\* error).  For a pair with any condition of the list, runSync is never
\* invoked and nothing else touches its items; for a skipped pair the
\* execution loop makes no call at all.  The loop steps over a skipped pair
\* to the next one, and a run that ends without an exception has invoked
\* runSync for every pair of type PROCESS whose second drop check and base
\* folder creation succeeded.
C28_PreFlightSkip ==
    /\ [](jpc # "off" =>
          \A p \in Pairs :
            LET c == folderPairCfg[p]
                dropped == DroppedAtCheck(p)
            IN  /\ Checked(p) =>
                     /\ jobType[p] = "SKIP" <=>
                           (c.pathsEqual \/ (~c.inSync /\ FailsCheck(c, dropped)))
                     /\ {e.what : e \in {x \in jlog : x.pair = p /\ x.ev = "fatal"}}
                           = {Violation(c, dropped)} \ {"none"}
                /\ FailsCheck(c, dropped) => Touches(p) = {}
                /\ Checked(p) /\ jobType[p] = "SKIP" =>
                     {e \in jlog : e.pair = p} \subseteq
                        {Ev("error", p, "drop")} \cup {Ev("fatal", p, w) :
                            w \in {"emptyTarget", "sourceMissing", "versioning"}}
                /\ jpc = "done" /\ jobType[p] = "PROCESS"
                     /\ Ev("error", p, "drop2") \notin jlog
                     /\ Ev("error", p, "base") \notin jlog
                     => Ev("runSync", p, "-") \in jlog)
    /\ [][jpc = "loop" /\ folderIndex \in Pairs /\ jobType[folderIndex] = "SKIP" =>
            /\ folderIndex' = folderIndex + 1
            /\ jpc' = "loop" /\ jexc' = jexc /\ jlog' = jlog /\ jobType' = jobType]_vars

\* the first folder pair uses versioning without a versioning folder: the
\* fatal error was reported, the pair was skipped, and the run has ended
\* after runSync was invoked for the second pair
C28_Witness ==
    /\ jpc = "done"
    /\ folderPairCfg[1].handleDeletion = "VERSIONING" /\ folderPairCfg[1].versioningNull
    /\ jobType[1] = "SKIP"
    /\ Ev("fatal", 1, "versioning") \in jlog
    /\ Ev("runSync", 1, "-") \notin jlog
    /\ Ev("runSync", 2, "-") \in jlog

\* ================================================= two-step move (C31)
\* the worker returns from setup2StepMove's renameItem with success
TwoStepReturned(w) ==
    /\ wpc[w] = "run" /\ wpos[w] = "ts_ren" /\ wres[w] = "ok"
    /\ wpos'[w] # "ts_ren"

\* rows that hold no entry of the input: an interim entry takes one of them
InterimSlots == {i \in Items : TreeOf(scn)[i] = Spare}

\* the move target whose source was renamed to an interim name in pass 0
TwoStepped(T) ==
    \E o \in fsLog : o.what = "rename" /\ o.item = TreeOf(scn)[T].ref
                       /\ o.pass = PASS_ZERO /\ o.by = "prep"

\* C31: the step that ends a successful setup2StepMove happens in pass 0 and
\* logs the rename of the source; after it a row that was free before holds
\* a file directly below the base folder with the interim name, the source's
\* attributes on that side and a move-from operation of that side; this row
\* and the target refer to each other, the target's operation is unchanged,
\* the source row is empty on that side, and neither the processed nor the
\* total statistics changed.  No work item of pass 0 is ever created for or
\* run on an interim row.  A rename of such a target returns only in pass 2,
\* from the target's work item, when no rename of the target was made
\* before; it leaves the target in sync and the interim row empty, so it
\* cannot repeat; and a run that ends without any error has made it, unless
\* the target's row was dropped because its folder had vanished.
C31_TwoStepMove ==
    /\ [][\A w \in Workers :
            TwoStepReturned(w) =>
              LET src == witem[w].id
                  tgt == wtgt[w]
                  side == getTargetDirection(tree[src].op)
              IN  /\ pass = PASS_ZERO /\ witem[w].t = "prep"
                  /\ fsLog' = fsLog \cup {[what |-> "rename", kind |-> "file", item |-> src,
                                           pass |-> PASS_ZERO, by |-> "prep"]}
                  /\ \E tmp \in Items \ {Base, src, tgt} :
                       /\ tree[tmp] = Spare
                       /\ tree'[tmp].present /\ tree'[tmp].kind = "file"
                       /\ tree'[tmp].parent = Base
                       /\ tree'[tmp].name = Spare.name
                       /\ sizeOf(tree'[tmp], side) = sizeOf(tree[src], side)
                       /\ sizeOf(tree'[tmp], OtherSide(side)) = 0
                       /\ tree'[tmp].op \in MoveFromOps
                       /\ getTargetDirection(tree'[tmp].op) = side
                       /\ tree'[tmp].ref = tgt /\ tree'[tgt].ref = tmp
                       /\ tree'[tgt] = [tree[tgt] EXCEPT !.ref = tmp]
                       /\ isEmpty(tree'[src], side) /\ tree'[src].ref = NoRef
                       /\ \A i \in Items \ {src, tgt, tmp} : tree'[i] = tree[i]
                  /\ procItems' = procItems /\ procBytes' = procBytes
                  /\ totItems' = totItems /\ totBytes' = totBytes
                  /\ SubStats(tree', Base) = SubStats(tree, Base)]_vars
    /\ [](pass = PASS_ZERO =>
            \A w \in Workers :
              /\ witem[w].id \notin InterimSlots
              /\ \A k \in DOMAIN bucket[w] : bucket[w][k].id \notin InterimSlots)
    /\ [][\A T \in MoveTargets : \A w \in Workers :
            TwoStepped(T) /\ RenameReturned(w, T) =>
               LET tmp == tree[T].ref
                   side == getTargetDirection(tree[T].op)
               IN  /\ pass = PASS_TWO /\ witem[w] = [t |-> "file", id |-> T]
                   /\ tmp \in InterimSlots
                   /\ ~Renamed(T) /\ Renamed(T)'
                   /\ tree'[T] = setSyncedTo(tree[T], side)
                   /\ tree'[T].op = "SO_EQUAL"
                   /\ tree'[tmp] = removeObject(tree[tmp], side)
                   /\ isEmpty(tree'[tmp], side) /\ isEmpty(tree'[tmp], OtherSide(side))
                   /\ procItems' = procItems + 1 /\ procBytes' = procBytes]_vars
    /\ [](\A T \in MoveTargets :
            TwoStepped(T) /\ mpc = "done" /\ nerr = 0 /\ tree[T].present =>
               /\ Renamed(T) /\ tree[T].op = "SO_EQUAL"
               /\ \A o \in fsLog : o.item = T => o.what = "rename" /\ o.pass = PASS_TWO)

\* the run of the tree "a -> a/a" has ended without any error: the source
\* was renamed to the interim name in pass 0 and the interim file to the
\* target in pass 2
C31_Witness ==
    /\ scn = "twostep"
    /\ mpc = "done" /\ nerr = 0
    /\ TwoStepped(3)
    /\ \E o \in fsLog : o.what = "rename" /\ o.item = 3 /\ o.pass = PASS_TWO
    /\ tree[3].op = "SO_EQUAL" /\ tree[4].L = 0 /\ tree[4].R = 0

\* ================================================= move resolution (C32)
\* the name of file i clashes with a symlink or folder beside it
FileNameClash(t, i) ==
    \/ haveNameClash(t, t[i].name, SubItems(t, t[i].parent, "link"))
    \/ haveNameClash(t, t[i].name, SubItems(t, t[i].parent, "folder"))

\* the name of folder g clashes with a symlink or file beside it
FolderNameClash(t, g) ==
    \/ haveNameClash(t, t[g].name, SubItems(t, t[g].parent, "link"))
    \/ haveNameClash(t, t[g].name, SubItems(t, t[g].parent, "file"))

\* the worker is in createParentFolder at a folder whose name clashes
CpfRefuses(w) ==
    /\ wpc[w] = "run" /\ wpos[w] = "cpf"
    /\ wk[w] <= Len(FolderChain(tree, wtgt[w]))
    /\ FolderNameClash(tree, FolderChain(tree, wtgt[w])[wk[w]])

\* the worker has left the position it was in
Moved(w) == wpc[w] = "run" /\ (wpos'[w] # wpos[w] \/ wpc'[w] # "run")

\* C32 as stated: a refusal of createParentFolder is followed by the
\* immediate synchronization of the move target, and setup2StepMove is
\* entered only when the target's own name clashes.
C32_RefusalFallsThrough ==
    /\ [][\A w \in Workers :
            CpfRefuses(w) /\ Moved(w) =>
               wpos'[w] = "sync_start" /\ wcur'[w] = wtgt[w]]_vars
    /\ [](\A w \in Workers :
            wpos[w] \in {"ts_start", "ts_ren"} => FileNameClash(TreeOf(scn), wtgt[w]))

\* C32: resolveMoveConflicts does nothing for a source that will not be
\* deleted and has no name clash; otherwise it enters setup2StepMove when the
\* target's name clashes and createParentFolder when it does not.
\* createParentFolder synchronizes the folders above the target outermost
\* first; at a folder whose name clashes with a sibling file or symlink it
\* refuses, and the refusal leads into setup2StepMove without any change of
\* the tree or the statistics; only after the whole chain was synchronized is
\* the move target synchronized at once.  So setup2StepMove is entered only
\* in pass 0 when the target's name clashes or a folder above it does, and
\* the target is synchronized in pass 0 only when neither is the case.
C32_RefusalTwoStep ==
    /\ [][\A w \in Workers :
            /\ (wpos[w] = "rz_start" /\ Moved(w) =>
                  LET src == witem[w].id
                      par == tree[src].parent
                      needed == \/ par # Base /\ tree[par].op \in DeleteOps
                                \/ FileNameClash(tree, src)
                  IN  wpos'[w] = IF ~needed THEN "finish"
                                 ELSE IF FileNameClash(tree, wtgt[w]) THEN "ts_start"
                                 ELSE "cpf")
            /\ (CpfRefuses(w) /\ Moved(w) =>
                  /\ wpos'[w] = "ts_start" /\ wpc'[w] = "run"
                  /\ tree' = tree /\ fsLog' = fsLog
                  /\ procItems' = procItems /\ totItems' = totItems)
            /\ (wpos[w] = "cpf" /\ ~CpfRefuses(w) /\ Moved(w) =>
                  LET chain == FolderChain(tree, wtgt[w])
                  IN  IF wk[w] <= Len(chain)
                      THEN wpos'[w] = "sync_start" /\ wcur'[w] = chain[wk[w]]
                      ELSE \/ wpos'[w] = "sync_start" /\ wcur'[w] = wtgt[w]
                           \/ wpos'[w] = "finish" /\ ~tree[wtgt[w]].present)]_vars
    /\ [](\A w \in Workers :
            LET t0 == TreeOf(scn)
                T == wtgt[w]
                chainClash == \E k \in DOMAIN FolderChain(t0, T) :
                                 FolderNameClash(t0, FolderChain(t0, T)[k])
            IN  /\ wpos[w] \in {"ts_start", "ts_ren"} =>
                     /\ pass = PASS_ZERO /\ witem[w].t = "prep"
                     /\ FileNameClash(t0, T) \/ chainClash
                /\ witem[w].t = "prep" /\ wpos[w] = "sync_start" /\ wcur[w] = T =>
                     ~FileNameClash(t0, T) /\ ~chainClash)

\* a worker has entered setup2StepMove for the move a -> a/a: the target's
\* name clashes with nothing, the name of the folder above it clashes with
\* the source file
C32_Witness ==
    \E w \in Workers :
      /\ wpc[w] = "run" /\ wpos[w] = "ts_start"
      /\ ~FileNameClash(tree, wtgt[w])
      /\ FolderNameClash(tree, tree[wtgt[w]].parent)
      /\ fsLog = {}

\* ================================================= one reporter scope (C33)
\* One AsyncItemStatReporter from its construction to its destruction, with
\* every sequence of up to MaxReports calls of reportDelta.  wstat[1] is the
\* reporter (it keeps its expectation after the scope has ended), wk[1] the
\* number of calls, wres[1] how the scope ended, added the sum of the deltas
\* that were passed to reportDelta.
MaxExpected == 2
MaxReports == 3
DeltaRange == -1..(MaxExpected + 1)

ScopeInit ==
    /\ scn = "scope"
    /\ tree = [i \in Items |-> IF i = Base THEN BaseEntry ELSE Spare]
    /\ pass = PASS_TWO
    /\ mpc = "wait"
    /\ threads = {<<PASS_TWO, 1>>}
    /\ wpc = [w \in Workers |-> IF w = 1 THEN "run" ELSE "term"]
    /\ wpos = [w \in Workers |-> "none"]
    /\ witem = [w \in Workers |-> NoItem]
    /\ wcur = [w \in Workers |-> Base]
    /\ wtgt = [w \in Workers |-> Base]
    /\ wk = [w \in Workers |-> 0]
    /\ wres = [w \in Workers |-> "none"]
    /\ wretry = [w \in Workers |-> 0]
    /\ wfails = [w \in Workers |-> 0]
    /\ \E ie \in 0..MaxExpected, be \in 0..MaxExpected :
         wstat = [w \in Workers |-> IF w = 1 THEN Scope(ie, be) ELSE NoScope]
    /\ wsnap = [w \in Workers |-> BaseEntry]
    /\ interrupted = [w \in Workers |-> FALSE]
    /\ bucket = [w \in Workers |-> <<>>]
    /\ folders = <<>>
    /\ holds = {1}
    /\ lockWork = 0 /\ idleThreads = 0 /\ finishNow = FALSE /\ notified = {}
    /\ errorRequest = 0 /\ errorResponse = "none" /\ reqRetry = 0
    /\ logInfoRequest = 0 /\ logPending = 0 /\ nerr = 0
    /\ procItems = 0 /\ procBytes = 0 /\ totItems = 0 /\ totBytes = 0
    /\ fsLog = {} /\ wiDone = {}
    /\ StatIdle
    /\ DelIdle

scopeFrame == <<scn, tree, pass, mpc, threads, wpc, witem, wpos, wcur, wtgt, wretry,
                holds, lockWork, bucket, folders, idleThreads, finishNow, errorRequest,
                errorResponse, interrupted, nerr, fsLog, wiDone, wsnap, extVars,
                pending, forwarded, mread, mstage, delVars>>

\* statReporter.reportDelta(di, db)
ScopeReport ==
    /\ wstat[1].on
    /\ wk[1] < MaxReports
    /\ \E di \in DeltaRange, db \in DeltaRange :
         LET r == reportDelta(wstat[1], di, db)
         IN  /\ wstat' = [wstat EXCEPT ![1] = r.st]
             /\ AddStats(r.pI, r.pB, r.tI, r.tB)
             /\ added' = [added EXCEPT !["itemsProcessed"] = @ + di,
                                       !["bytesProcessed"] = @ + db]
    /\ wk' = [wk EXCEPT ![1] = @ + 1]
    /\ UNCHANGED <<wres, scopeFrame>>

\* ~AsyncItemStatReporter, on return or while an exception unwinds the scope
ScopeEnd ==
    /\ wstat[1].on
    /\ \E scopeFail \in BOOLEAN :
         LET x == scopeExit(wstat[1], scopeFail)
         IN  /\ AddStats(0, 0, x.tI, x.tB)
             /\ wres' = [wres EXCEPT ![1] = IF scopeFail THEN "exception" ELSE "normal"]
    /\ wstat' = [wstat EXCEPT ![1].on = FALSE]
    /\ UNCHANGED <<wk, added, scopeFrame>>

ScopeNext == ScopeReport \/ ScopeEnd

SpecScope == ScopeInit /\ [][ScopeNext]_vars

\* C33: the processed counters have grown by the sum of the deltas reported.
\* While the scope is open, what was reported within the expectation is
\* never more than the expectation and the total has grown by the rest (the
\* excess).  When the scope has ended normally the total has changed by the
\* sum of the deltas minus the expectation, when it has ended through an
\* exception by the sum of the deltas.
C33_ScopeAccounting ==
    LET st == wstat[1]
        P_items == added["itemsProcessed"]
        P_bytes == added["bytesProcessed"]
    IN  /\ procItems = P_items /\ procBytes = P_bytes
        /\ st.ir <= st.ie /\ st.br <= st.be
        /\ st.on => /\ totItems = P_items - st.ir /\ totBytes = P_bytes - st.br
                    /\ totItems >= 0 /\ totBytes >= 0
        /\ wres[1] = "normal" => /\ totItems = P_items - st.ie
                                 /\ totBytes = P_bytes - st.be
        /\ wres[1] = "exception" => /\ totItems = P_items
                                    /\ totBytes = P_bytes

\* a scope that expected one item and two bytes has ended through an
\* exception after three reports; more bytes than expected were reported at
\* some point (the total grew while the scope was open) and a negative delta
\* took some back
C33_Witness ==
    /\ wres[1] = "exception" /\ wk[1] = MaxReports
    /\ wstat[1].ie = 1 /\ wstat[1].be = 2
    /\ wstat[1].br < wstat[1].be
    /\ procBytes > wstat[1].br
    /\ totBytes = procBytes /\ procItems = 1

\* ================================================= percent complete (C34)
\* Workers that report through an AsyncItemStatReporter, one atomic counter
\* at a time, beside the main thread's reportStats.  The reporter starts
\* with the total that initNewPhase was given: the sum of the expectations.
\* wstat[w] is the worker's reporter, wretry[w] the bytesDelta of the call it is
\* in, wk[w] the number of its calls; a worker ends its scope, normally or
\* through an exception, and becomes idle.
PctDeltas == {<<1, 0>>, <<0, 1>>, <<0, 2>>}

\* reportDelta calls of one worker
MaxCalls == 1

PctInit ==
    /\ scn = "percent"
    /\ tree = [i \in Items |-> IF i = Base THEN BaseEntry ELSE Spare]
    /\ pass = PASS_TWO
    /\ mpc = "wait"
    /\ threads = {<<PASS_TWO, w>> : w \in Workers}
    /\ wpc = [w \in Workers |-> "run"]
    /\ witem = [w \in Workers |-> NoItem]
    /\ wpos = [w \in Workers |-> "none"]
    /\ wcur = [w \in Workers |-> Base]
    /\ wtgt = [w \in Workers |-> Base]
    /\ wk = [w \in Workers |-> 0]
    /\ wres = [w \in Workers |-> "none"]
    /\ wretry = [w \in Workers |-> 0]
    /\ \E be \in 1..MaxExpected : wstat = [w \in Workers |-> Scope(1, be)]
    /\ holds = {}
    /\ lockWork = 0
    /\ bucket = [w \in Workers |-> <<>>]
    /\ folders = <<>>
    /\ idleThreads = 0
    /\ finishNow = FALSE
    /\ errorRequest = 0
    /\ errorResponse = "none"
    /\ interrupted = [w \in Workers |-> FALSE]
    /\ nerr = 0
    /\ procItems = 0 /\ procBytes = 0 /\ totItems = 0 /\ totBytes = 0
    /\ fsLog = {}
    /\ wiDone = {}
    /\ wsnap = [w \in Workers |-> BaseEntry]
    /\ logInfoRequest = 0
    /\ notified = {}
    /\ reqRetry = 0
    /\ wfails = [w \in Workers |-> 0]
    /\ logPending = 0
    /\ pending = [c \in Counters |-> 0]
    \* callback.initNewPhase(itemsTotal, bytesTotal, ...)
    /\ forwarded = [c \in Counters |->
                      CASE c = "itemsTotal" -> SumOver([w \in Workers |-> wstat[w].ie], Workers)
                        [] c = "bytesTotal" -> SumOver([w \in Workers |-> wstat[w].be], Workers)
                        [] OTHER -> 0]
    /\ added = [c \in Counters |-> 0]
    /\ mread = [c \in Counters |-> 0]
    /\ mstage = "wait"
    /\ DelIdle

pctFrame == <<scn, tree, pass, threads, witem, wcur, wtgt, wres, holds, lockWork,
              bucket, folders, errorRequest, errorResponse, interrupted, nerr,
              procItems, procBytes, totItems, totBytes, fsLog, wiDone, wsnap, extVars,
              delVars, mpc, forwarded, mread, mstage, added>>

\* reportDelta: acb_.updateDataProcessed(itemsDelta, bytesDelta), statement
\* by statement, and the two += of the reporter
PctProcessed(w) ==
    /\ \/ /\ wpc[w] = "run" /\ wstat[w].on /\ wk[w] < MaxCalls
          /\ \E d \in PctDeltas :
               /\ pending' = [pending EXCEPT !["itemsProcessed"] = @ + d[1]]
               /\ wstat' = [wstat EXCEPT ![w].ir = @ + d[1]]
               /\ wretry' = [wretry EXCEPT ![w] = d[2]]
          /\ wpc' = [wpc EXCEPT ![w] = "addBytes"]
       \/ /\ wpc[w] = "addBytes"
          /\ pending' = [pending EXCEPT !["bytesProcessed"] = @ + wretry[w]]
          /\ wstat' = [wstat EXCEPT ![w].br = @ + wretry[w]]
          /\ wretry' = [wretry EXCEPT ![w] = 0]
          /\ wpc' = [wpc EXCEPT ![w] = "excessItems"]
    /\ UNCHANGED <<pctFrame, wpos, wk, idleThreads, finishNow>>

\* reportDelta, the special rule: what exceeds the expectation is added to
\* the total counter and taken back from the reported value
PctExcess(w) ==
    /\ \/ /\ wpc[w] = "excessItems"
          /\ pending' = [pending EXCEPT !["itemsTotal"] =
                           @ + (IF wstat[w].ir > wstat[w].ie THEN wstat[w].ir - wstat[w].ie ELSE 0)]
          /\ wstat' = [wstat EXCEPT ![w].ir = IF @ > wstat[w].ie THEN wstat[w].ie ELSE @]
          /\ wpc' = [wpc EXCEPT ![w] = "excessBytes"]
          /\ wk' = wk
       \/ /\ wpc[w] = "excessBytes"
          /\ pending' = [pending EXCEPT !["bytesTotal"] =
                           @ + (IF wstat[w].br > wstat[w].be THEN wstat[w].br - wstat[w].be ELSE 0)]
          /\ wstat' = [wstat EXCEPT ![w].br = IF @ > wstat[w].be THEN wstat[w].be ELSE @]
          /\ wpc' = [wpc EXCEPT ![w] = "run"]
          /\ wk' = [wk EXCEPT ![w] = @ + 1]
    /\ UNCHANGED <<pctFrame, wpos, wretry, idleThreads, finishNow>>

\* ~AsyncItemStatReporter: acb_.updateDataTotal(...), statement by statement
PctScopeEnd(w) ==
    /\ \/ /\ wpc[w] = "run" /\ wstat[w].on
          /\ \E scopeFail \in BOOLEAN :
               /\ pending' = [pending EXCEPT !["itemsTotal"] = @ + scopeExit(wstat[w], scopeFail).tI]
               /\ wpos' = [wpos EXCEPT ![w] = IF scopeFail THEN "fail" ELSE "return"]
          /\ wpc' = [wpc EXCEPT ![w] = "endBytes"]
          /\ wstat' = wstat
       \/ /\ wpc[w] = "endBytes"
          /\ pending' = [pending EXCEPT !["bytesTotal"] =
                           @ + scopeExit(wstat[w], wpos[w] = "fail").tB]
          /\ wstat' = [wstat EXCEPT ![w].on = FALSE]
          /\ wpc' = [wpc EXCEPT ![w] = "run"]
          /\ wpos' = wpos
    /\ UNCHANGED <<pctFrame, wk, wretry, idleThreads, finishNow>>

\* the worker finds no more work in getNext; the last one calls notifyAllDone
PctIdle(w) ==
    /\ wpc[w] = "run" /\ ~wstat[w].on
    /\ wpc' = [wpc EXCEPT ![w] = "idle"]
    /\ idleThreads' = idleThreads + 1
    /\ finishNow' = (finishNow \/ idleThreads + 1 = ThreadCount)
    /\ UNCHANGED <<pctFrame, wpos, wk, wretry, wstat, pending>>

PctNext ==
    \/ StatWaitEnds
    \/ StatReport
    \/ \E w \in Workers : PctProcessed(w) \/ PctExcess(w) \/ PctScopeEnd(w) \/ PctIdle(w)

SpecPercent == PctInit /\ [][PctNext]_vars

\* C34 as stated, at the moments the reporter can be looked at (reportStats
\* is not in progress): the processed items and bytes forwarded to the
\* reporter are never more than the total forwarded to it.
C34_NeverAboveTotal ==
    mstage = "wait" =>
       /\ forwarded["itemsProcessed"] <= forwarded["itemsTotal"]
       /\ forwarded["bytesProcessed"] <= forwarded["bytesTotal"]

\* ------------------------------------------------------------------- C35
\* getNext's "if (++idleThreads_ == workload_.size())" is true for worker w
LastToIdle(w) == wpc[w] = "next" /\ wpc'[w] = "idle" /\ idleThreads' = ThreadCount

\* work of the pass remains: a bucket holds an item, a folder is queued for
\* expansion, or a worker is expanding a folder or has a work item
WorkRemains ==
    \/ folders # <<>>
    \/ \E v \in Workers : bucket[v] # <<>>
    \/ \E v \in Workers : wpc[v] \notin {"idle", "term"}

\* C35: notifyAllDone is called (finishNowRequest_ set) once per pass: by the
\* worker that makes idleThreads_ equal to the number of workers and by no
\* other step, never when the flag is already set, and only when every
\* bucket is empty, no folder is queued, every other worker is idle and no
\* error request is pending; idleThreads_ counts the idle workers.
\* waitUntilDone returns to runPass only with the flag set and no work left,
\* and the flag is never set while an error request is pending.
C35_EndOfPass ==
    /\ [][\A w \in Workers : LastToIdle(w) =>
            /\ ~finishNow /\ finishNow'
            /\ folders = <<>> /\ \A v \in Workers : bucket[v] = <<>>
            /\ \A v \in Workers \ {w} : wpc[v] = "idle"
            /\ errorRequest = 0]_vars
    /\ [][(~finishNow /\ finishNow') => \E w \in Workers : LastToIdle(w)]_vars
    /\ [](mpc = "wait" => idleThreads = Cardinality({w \in Workers : wpc[w] = "idle"}))
    /\ [](finishNow => errorRequest = 0 /\ ~WorkRemains)
    /\ [][(mpc = "wait" /\ mpc' = "join") => finishNow /\ ~WorkRemains]_vars

\* the last pass has ended through notifyAllDone after work was done in it
C35_Witness ==
    /\ mpc = "join" /\ finishNow /\ pass = PASS_TWO
    /\ \E e \in fsLog : e.pass = PASS_TWO

\* ========================================================= SpecOnce (C36)
\* The Workload of one pass, as in SpecSteal, from the start of the pass (the
\* base folder queued, all buckets empty); fsLog records which folder a
\* worker took off foldersToProcess_ ("expand") and which work item the
\* worker loop called ("run").
OnceInit == StealInit /\ folders = <<Base>>

\* getNext: foldersToProcess_.back(), pop_back(), appendFolderLevelWorkItems
OnceExpandBegin(w) ==
    /\ wpc[w] = "next"
    /\ lockWork \in {0, w}
    /\ bucket[w] = <<>>
    /\ folders # <<>>
    /\ wcur' = [wcur EXCEPT ![w] = Last(folders)]
    /\ folders' = Front(folders)
    /\ lockWork' = w
    /\ fsLog' = fsLog \cup {[what |-> "expand", kind |-> "folder", item |-> Last(folders),
                             pass |-> pass, by |-> "getNext"]}
    /\ Goto(w, "expand", "none")
    /\ UNCHANGED <<mainVars, tree, witem, wtgt, wk, wres, wretry, wstat, holds, bucket,
                   idleThreads, finishNow, chanVars, nerr, sumVars, wiDone, wsnap,
                   statVars, delVars, extVars>>

\* the worker loop of runPass locks singleThread and calls the work item
OnceRun(w) ==
    /\ wpc[w] = "lock"
    /\ runPassLock(w)
    /\ fsLog' = fsLog \cup {FsOp(w, "run", witem[w].id)}
    /\ Goto(w, "run", IF witem[w].t = "folder" THEN "addFolder" ELSE "finish")
    /\ UNCHANGED <<mainVars, tree, callVars, loadVars, finishNow, chanVars, nerr,
                   sumVars, wiDone, wsnap, statVars, delVars, extVars>>

OnceStep(w) ==
    \/ GetNextPop(w)
    \/ OnceExpandBegin(w)
    \/ ExpandEnd(w)
    \/ Steal(w)
    \/ GoIdle(w)
    \/ Wake(w)
    \/ Recheck(w)
    \/ OnceRun(w)
    \/ AddFolderToProcess(w)
    \/ Finish(w)

OnceNext == \E w \in 1..StealThreadCount : OnceStep(w)

SpecOnce == OnceInit /\ [][OnceNext]_vars

\* the work items in all buckets, as a bag
RECURSIVE BagOfSeq(_)
BagOfSeq(s) == IF s = <<>> THEN EmptyBag ELSE SetToBag({s[1]}) (+) BagOfSeq(Tail(s))

RECURSIVE BagOfBuckets(_, _)
BagOfBuckets(b, n) == IF n = 0 THEN EmptyBag ELSE BagOfSeq(b[n]) (+) BagOfBuckets(b, n - 1)

Queued(b) == BagOfBuckets(b, Len(b))

\* getNext returns a work item to worker w
Returns(w) == wpc[w] = "next" /\ wpc'[w] = "lock"

WasRun(i)      == \E e \in fsLog : e.what = "run" /\ e.item = i
WasExpanded(f) == \E e \in fsLog : e.what = "expand" /\ e.item = f

\* C36: a work item is called only if it was not called before in the pass,
\* and when the pass is over every item of the tree has been called; a
\* folder is taken off foldersToProcess_ only if it was not taken before,
\* and when the pass is over every folder has been taken, the base folder
\* included.  A getNext that returns takes exactly the returned item out of
\* the buckets; when it changes the bucket of another thread (a steal), the
\* own bucket and the folder queue were empty, and the items of all buckets
\* together are afterwards the same ones less the returned item.  Only the
\* end of an expansion adds items, the new work items of that folder.
C36_ExactlyOnce ==
    /\ [][\A w \in 1..StealThreadCount :
            (wpc[w] = "lock" /\ wpc'[w] = "run") => ~WasRun(witem[w].id)]_vars
    /\ [][\A w \in 1..StealThreadCount :
            (wpc[w] = "next" /\ wpc'[w] = "expand") => ~WasExpanded(wcur'[w])]_vars
    /\ [](finishNow =>
            /\ \A i \in Items \ {Base} : WasRun(i)
            /\ \A f \in Items : tree[f].kind = "folder" => WasExpanded(f))
    /\ [][\A w \in 1..StealThreadCount : Returns(w) =>
            /\ witem'[w] # NoItem
            /\ Queued(bucket') (+) SetToBag({witem'[w]}) = Queued(bucket)
            /\ (\E v \in DOMAIN bucket \ {w} : bucket'[v] # bucket[v]) =>
                   /\ bucket[w] = <<>> /\ folders = <<>>
                   /\ \A v \in DOMAIN bucket \ {w} :
                        bucket'[v] # bucket[v] => Len(bucket[v]) > 0]_vars
    /\ [][(Queued(bucket') # Queued(bucket) /\ ~\E w \in 1..StealThreadCount : Returns(w)) =>
            \E w \in 1..StealThreadCount :
               /\ wpc[w] = "expand"
               /\ Queued(bucket') = Queued(bucket) (+) BagOfSeq(NewWorkItems(pass, tree, wcur[w]))]_vars

\* a thread leaves getNext with a stolen item: its bucket and the bucket of
\* another thread hold items of the same folder, which one expansion put
\* into one bucket
C36_Witness ==
    \E w, v \in 1..StealThreadCount :
        /\ w # v
        /\ wpc[w] = "lock" /\ bucket[w] # <<>> /\ bucket[v] # <<>>
        /\ tree[bucket[w][1].id].parent = tree[bucket[v][1].id].parent
        /\ tree[witem[w].id].parent = tree[bucket[v][1].id].parent

\* ========================================================= SpecLocks (C37)
\* One pass with every mutex on its own: singleThread (holds), lockWork_
\* (lockWork), lockRequest_ and lockCurrentStatus_.  A thread takes a mutex
\* in one step and leaves it in a later one, so that a thread can be seen
\* waiting for a mutex while it owns another.  A work item is reduced to its
\* calls of AsyncCallback and parallelScope: reportInfo (reportStatus,
\* logInfo), the filesystem call outside singleThread, reportError when the
\* call failed, and addFolderToProcess at the end of a folder's item.
\* A wait on a condition variable ends when its predicate holds: each
\* statement that makes such a predicate true is followed by notify_all on
\* that condition variable (conditionNewWork_ is modelled with "notified").
MainThread == ThreadCount + 1

\* filesystem calls that fail during the pass
MaxFailures == 2

TreeLocks ==
    [i \in Items |->
       CASE i = 0 -> BaseEntry
         [] i = 1 -> Entry("folder", 0, 1, "SO_CREATE_NEW_RIGHT", 1, 0, NoRef)
         [] i \in {2, 3} -> Entry("file", 1, i, "SO_CREATE_NEW_RIGHT", 1, 0, NoRef)
         [] i = 4 -> Entry("file", 0, 4, "SO_CREATE_NEW_RIGHT", 1, 0, NoRef)
         [] OTHER -> Spare]

LocksInit ==
    /\ scn = "locks"
    /\ tree = TreeLocks
    /\ pass = PASS_TWO
    /\ mpc = "wait"
    /\ threads = {<<PASS_TWO, w>> : w \in Workers}
    /\ wpc = [w \in Workers |-> "next"]
    /\ wpos = [w \in Workers |-> "none"]
    /\ witem = [w \in Workers |-> NoItem]
    /\ wcur = [w \in Workers |-> Base]
    /\ wtgt = [w \in Workers |-> Base]
    /\ wk = [w \in Workers |-> 0]
    /\ wres = [w \in Workers |-> "none"]
    /\ wretry = [w \in Workers |-> 0]
    /\ wfails = [w \in Workers |-> 0]
    /\ wstat = [w \in Workers |-> NoScope]
    /\ wsnap = [w \in Workers |-> BaseEntry]
    /\ interrupted = [w \in Workers |-> FALSE]
    /\ holds = {}
    /\ bucket = [w \in Workers |-> <<>>]
    /\ folders = <<Base>>
    /\ lockWork = 0 /\ idleThreads = 0 /\ finishNow = FALSE /\ notified = {}
    /\ errorRequest = 0 /\ errorResponse = "none" /\ reqRetry = 0
    /\ logInfoRequest = 0 /\ logPending = 0 /\ nerr = 0
    /\ procItems = 0 /\ procBytes = 0 /\ totItems = 0 /\ totBytes = 0
    /\ fsLog = {} /\ wiDone = {}
    /\ StatIdle
    /\ DelIdle

lkFrame == <<scn, tree, pass, wcur, wtgt, wk, wres, wretry, wstat, sumVars, ghostVars,
             reqRetry, wfails, logPending, statVars, deletionPolicy, recyclerSession,
             versioner, failSafeFileCopy, dfs, dw, handlesMade, dfails,
             verifyCopiedFiles, jobVars>>
lkMain == <<mpc, threads, interrupted>>
lkLoad == <<bucket, folders, idleThreads, notified>>
lkChan == <<errorRequest, errorResponse, logInfoRequest, finishNow, nerr>>

\* std::condition_variable::wait leaving the mutex locked while it waits
WaitUnlocks_keeps(owner) == owner

\* std::condition_variable::wait(lock, pred): the mutex is unlocked while the
\* thread waits
WaitUnlocks(owner) == 0

\* ---- Workload::getNext
\* std::unique_lock dummy(lockWork_)
LkEnter(w) ==
    /\ wpc[w] = "next"
    /\ lockWork = 0
    /\ lockWork' = w
    /\ Goto(w, "inNext", "none")
    /\ UNCHANGED <<lkFrame, lkMain, lkLoad, lkChan, witem, holds, lockRequest, lockCurrentStatus>>

\* the loops of getNext, under lockWork_
LkGetNext(w) ==
    /\ wpc[w] = "inNext"
    /\ \/ /\ bucket[w] # <<>>
          /\ witem' = [witem EXCEPT ![w] = Last(bucket[w])]
          /\ bucket' = [bucket EXCEPT ![w] = Front(bucket[w])]
          /\ lockWork' = 0
          /\ Goto(w, "lock", "none")
          /\ UNCHANGED <<folders, idleThreads>>
       \/ /\ bucket[w] = <<>> /\ folders # <<>>
          /\ bucket' = [bucket EXCEPT ![w] = Reverse(NewWorkItems(pass, tree, Last(folders)))]
          /\ folders' = Front(folders) \o Reverse(NewFolders(pass, tree, Last(folders)))
          /\ UNCHANGED <<witem, lockWork, wpc, wpos, idleThreads>>
       \/ /\ bucket[w] = <<>> /\ folders = <<>>
          /\ bucket[LargestBucket] # <<>>
          /\ LET v == LargestBucket
                 stolen == EveryOther(bucket[v], TRUE)
             IN  /\ bucket' = [bucket EXCEPT ![v] = EveryOther(bucket[v], FALSE),
                                             ![w] = Front(stolen)]
                 /\ witem' = [witem EXCEPT ![w] = Last(stolen)]
          /\ lockWork' = 0
          /\ Goto(w, "lock", "none")
          /\ UNCHANGED <<folders, idleThreads>>
       \/ /\ AllEmpty
          /\ idleThreads' = idleThreads + 1
          \* if (++idleThreads_ == workload_.size()) acb_.notifyAllDone()
          /\ Goto(w, IF idleThreads + 1 = Len(bucket) THEN "allDone" ELSE "workEnd", "none")
          /\ UNCHANGED <<witem, lockWork, bucket, folders>>
    /\ UNCHANGED <<lkFrame, lkMain, lkChan, notified, holds, lockRequest, lockCurrentStatus>>

\* notifyAllDone, called under lockWork_: lock_guard dummy(lockRequest_)
LkAllDone(w) ==
    /\ \/ /\ wpc[w] = "allDone"
          /\ lockRequest = 0
          /\ lockRequest' = w
          /\ Goto(w, "allDone_in", "none")
          /\ UNCHANGED finishNow
       \/ /\ wpc[w] = "allDone_in"
          /\ finishNow' = TRUE
          /\ lockRequest' = 0
          /\ Goto(w, "workEnd", "none")
    /\ UNCHANGED <<lkFrame, lkMain, lkLoad, errorRequest, errorResponse, logInfoRequest, nerr,
                   witem, holds, lockWork, lockCurrentStatus>>

\* notifyWorkEnd, called under lockWork_, then interruptibleWait(
\* conditionNewWork_, dummy, haveNewWork)
LkWorkEnd(w) ==
    /\ \/ /\ wpc[w] = "workEnd"
          /\ lockCurrentStatus = 0
          /\ lockCurrentStatus' = w
          /\ Goto(w, "workEnd_in", "none")
          /\ UNCHANGED lockWork
       \/ /\ wpc[w] = "workEnd_in"
          /\ lockCurrentStatus' = 0
          /\ lockWork' = WaitUnlocks(w)
          /\ Goto(w, "idle", "none")
    /\ UNCHANGED <<lkFrame, lkMain, lkLoad, lkChan, witem, holds, lockRequest>>

\* interruptibleWait returns or throws, with lockWork_ locked again
LkWake(w) ==
    /\ wpc[w] = "idle"
    /\ lockWork \in {0, w}
    /\ \/ /\ ~interrupted[w] /\ w \in notified /\ ~AllEmpty
          /\ lockWork' = w
          /\ Goto(w, "workBegin", "none")
       \/ /\ ~interrupted[w] /\ w \in notified /\ AllEmpty
          /\ lockWork' = WaitUnlocks(lockWork)
          /\ UNCHANGED <<wpc, wpos>>
       \/ /\ interrupted[w]
          /\ lockWork' = w
          /\ Goto(w, "exitBegin", "none")
    /\ notified' = notified \ {w}
    /\ UNCHANGED <<lkFrame, lkMain, bucket, folders, idleThreads, lkChan, witem, holds,
                   lockRequest, lockCurrentStatus>>

\* the scope guards of getNext's loop body, under lockWork_:
\* notifyWorkBegin, then --idleThreads_
LkWorkBegin(w) ==
    /\ \/ /\ wpc[w] \in {"workBegin", "exitBegin"}
          /\ lockCurrentStatus = 0
          /\ lockCurrentStatus' = w
          /\ Goto(w, IF wpc[w] = "workBegin" THEN "workBegin_in" ELSE "exitBegin_in", "none")
          /\ UNCHANGED <<idleThreads, lockWork>>
       \/ /\ wpc[w] = "workBegin_in"
          /\ lockCurrentStatus' = 0
          /\ idleThreads' = idleThreads - 1
          /\ Goto(w, "inNext", "none")
          /\ UNCHANGED lockWork
       \/ /\ wpc[w] = "exitBegin_in"
          /\ lockCurrentStatus' = 0
          /\ idleThreads' = idleThreads - 1
          \* ThreadInterruption leaves getNext: lockWork_ is unlocked
          /\ lockWork' = 0
          /\ Goto(w, "exitEnd", "none")
    /\ UNCHANGED <<lkFrame, lkMain, bucket, folders, notified, lkChan, witem, holds, lockRequest>>

\* the worker's lambda is left: ZEN_ON_SCOPE_EXIT(acb.notifyWorkEnd(threadIdx))
LkExit(w) ==
    /\ \/ /\ wpc[w] = "exitEnd"
          /\ lockCurrentStatus = 0
          /\ lockCurrentStatus' = w
          /\ Goto(w, "exitEnd_in", "none")
          /\ UNCHANGED threads
       \/ /\ wpc[w] = "exitEnd_in"
          /\ lockCurrentStatus' = 0
          /\ threads' = threads \ {<<pass, w>>}
          /\ Goto(w, "term", "none")
    /\ UNCHANGED <<lkFrame, mpc, interrupted, lkLoad, lkChan, witem, holds, lockWork, lockRequest>>

\* ---- the work item
\* std::lock_guard dummy(singleThread); workItem(fps)
LkLock(w) ==
    /\ wpc[w] = "lock"
    /\ runPassLock(w)
    /\ Goto(w, "run", "status")
    /\ UNCHANGED <<lkFrame, lkMain, lkLoad, lkChan, witem, lockWork, lockRequest, lockCurrentStatus>>

\* reportInfo: reportStatus (lock_guard dummy(lockCurrentStatus_))
LkReportStatus(w) ==
    /\ wpc[w] = "run"
    /\ \/ /\ wpos[w] = "status"
          /\ lockCurrentStatus = 0
          /\ lockCurrentStatus' = w
          /\ Goto(w, "run", "status_in")
       \/ /\ wpos[w] = "status_in"
          /\ lockCurrentStatus' = 0
          /\ Goto(w, "run", "log")
    /\ UNCHANGED <<lkFrame, lkMain, lkLoad, lkChan, witem, holds, lockWork, lockRequest>>

\* reportInfo: logInfo
LkLogInfo(w) ==
    /\ wpc[w] = "run"
    /\ \/ /\ wpos[w] = "log"
          /\ lockRequest = 0
          /\ lockRequest' = w
          /\ Goto(w, "run", "log_in")
          /\ UNCHANGED logInfoRequest
       \/ /\ wpos[w] = "log_in"
          /\ IF logInfoRequest = 0
             THEN /\ logInfoRequest' = w
                  /\ lockRequest' = 0
                  /\ Goto(w, "run", "io_begin")
             ELSE /\ lockRequest' = WaitUnlocks(w)
                  /\ Goto(w, "run", "log_wait")
                  /\ UNCHANGED logInfoRequest
       \/ /\ wpos[w] = "log_wait"
          /\ logInfoRequest = 0
          /\ lockRequest \in {0, w}
          /\ lockRequest' = w
          /\ Goto(w, "run", "log_in")
          /\ UNCHANGED logInfoRequest
    /\ UNCHANGED <<lkFrame, lkMain, lkLoad, errorRequest, errorResponse, finishNow, nerr,
                   witem, holds, lockWork, lockCurrentStatus>>

\* parallelScope: singleThread.unlock(), the filesystem call, singleThread.lock()
LkParallel(w) ==
    /\ wpc[w] = "run"
    /\ \/ /\ wpos[w] = "io_begin"
          /\ parallelScopeEnter(w)
          /\ Goto(w, "run", "io")
          /\ nerr' = nerr
       \/ /\ wpos[w] = "io"
          /\ \/ Goto(w, "run", "relock_ok") /\ nerr' = nerr
             \/ nerr < MaxFailures /\ nerr' = nerr + 1 /\ Goto(w, "run", "relock_fail")
          /\ holds' = holds
       \/ /\ wpos[w] \in {"relock_ok", "relock_fail"}
          /\ parallelScopeExit(w)
          /\ Goto(w, "run", IF wpos[w] = "relock_ok" THEN "end" ELSE "err")
          /\ nerr' = nerr
    /\ UNCHANGED <<lkFrame, lkMain, lkLoad, errorRequest, errorResponse, logInfoRequest,
                   finishNow, witem, lockWork, lockRequest, lockCurrentStatus>>

\* tryReportingError: acb_.reportError
LkReportError(w) ==
    /\ wpc[w] = "run"
    /\ \/ /\ wpos[w] = "err"
          /\ lockRequest = 0
          /\ lockRequest' = w
          /\ Goto(w, "run", "err_in")
          /\ UNCHANGED <<errorRequest, errorResponse>>
       \/ /\ wpos[w] = "err_in"
          /\ IF reportErrorReady
             THEN /\ errorRequest' = w
                  /\ Goto(w, "run", "err_resp")
             ELSE /\ errorRequest' = errorRequest
                  /\ Goto(w, "run", "err_slot")
          /\ lockRequest' = WaitUnlocks(w)
          /\ UNCHANGED errorResponse
       \/ /\ wpos[w] = "err_slot"
          /\ reportErrorReady
          /\ lockRequest \in {0, w}
          /\ lockRequest' = w
          /\ Goto(w, "run", "err_in")
          /\ UNCHANGED <<errorRequest, errorResponse>>
       \/ /\ wpos[w] = "err_resp"
          /\ errorResponse # "none"
          /\ lockRequest \in {0, w}
          /\ lockRequest' = w
          /\ Goto(w, "run", "err_take")
          /\ UNCHANGED <<errorRequest, errorResponse>>
       \/ /\ wpos[w] = "err_take"
          /\ errorRequest' = 0
          /\ errorResponse' = "none"
          /\ lockRequest' = 0
          /\ Goto(w, "run", IF errorResponse = "RETRY" THEN "io_begin" ELSE "end")
    /\ UNCHANGED <<lkFrame, lkMain, lkLoad, logInfoRequest, finishNow, nerr,
                   witem, holds, lockWork, lockCurrentStatus>>

\* the last statement of a folder's item, addFolderToProcess (lock_guard
\* dummy(lockWork_), under singleThread), and the end of the work item
LkEnd(w) ==
    /\ wpc[w] = "run"
    /\ \/ /\ wpos[w] = "end" /\ witem[w].t = "folder"
          /\ lockWork = 0
          /\ lockWork' = w
          /\ Goto(w, "run", "add_in")
          /\ UNCHANGED <<folders, notified, holds, witem>>
       \/ /\ wpos[w] = "add_in"
          /\ folders' = Append(folders, witem[w].id)
          /\ lockWork' = 0
          /\ notified' = notifyAll
          /\ Goto(w, "run", "finish")
          /\ UNCHANGED <<holds, witem>>
       \/ /\ \/ wpos[w] = "end" /\ witem[w].t # "folder"
             \/ wpos[w] = "finish"
          /\ holds' = holds \ {w}
          /\ witem' = [witem EXCEPT ![w] = NoItem]
          /\ Goto(w, "next", "none")
          /\ UNCHANGED <<folders, notified, lockWork>>
    /\ UNCHANGED <<lkFrame, lkMain, bucket, idleThreads, lkChan, lockRequest, lockCurrentStatus>>

\* ---- AsyncCallback::waitUntilDone
\* the test for an error request that does not look at the response
errorOpen_ignoringResponse == errorRequest # 0

\* if (errorRequest_ && !errorResponse_)
errorOpen == errorRequest # 0 /\ errorResponse = "none"

\* the predicate of conditionNewRequest.wait_until
NewRequest == errorOpen \/ logInfoRequest # 0 \/ finishNow

\* wait_until returns with lockRequest_ locked: the predicate holds, or the
\* time is over and the loop is left (lockRequest_ unlocked again)
LkMainWake ==
    /\ mpc = "wait"
    /\ lockRequest = 0
    /\ IF NewRequest
       THEN lockRequest' = MainThread /\ mpc' = "proc"
       ELSE lockRequest' = 0 /\ mpc' = "status"
    /\ UNCHANGED <<lkFrame, threads, interrupted, lkLoad, lkChan, wpc, wpos, witem, holds,
                   lockWork, lockCurrentStatus>>

\* the three tests of the inner loop, under lockRequest_; on
\* finishNowRequest_ waitUntilDone returns and runPass interrupts the workers
LkMainProcess ==
    /\ mpc = "proc"
    /\ IF errorOpen
       THEN \E r \in {"IGNORE", "RETRY"} : errorResponse' = r
       ELSE errorResponse' = errorResponse
    /\ logInfoRequest' = 0
    /\ IF finishNow
       THEN /\ lockRequest' = 0
            /\ mpc' = "join"
            /\ interrupted' = InterruptAll
       ELSE /\ lockRequest' = WaitUnlocks(MainThread)
            /\ mpc' = "wait"
            /\ interrupted' = interrupted
    /\ UNCHANGED <<lkFrame, threads, lkLoad, errorRequest, finishNow, nerr, wpc, wpos, witem,
                   holds, lockWork, lockCurrentStatus>>

\* cb.reportStatus(getCurrentStatus()): lock_guard dummy(lockCurrentStatus_);
\* then the inner loop begins again: unique_lock dummy(lockRequest_)
LkMainStatus ==
    /\ \/ /\ mpc = "status"
          /\ lockCurrentStatus = 0
          /\ lockCurrentStatus' = MainThread
          /\ mpc' = "status_in"
       \/ /\ mpc = "status_in"
          /\ lockCurrentStatus' = 0
          /\ mpc' = "wait"
    /\ UNCHANGED <<lkFrame, threads, interrupted, lkLoad, lkChan, wpc, wpos, witem, holds,
                   lockWork, lockRequest>>

\* runPass: wt.join() for every worker
LkMainJoin ==
    /\ mpc = "join"
    /\ JoinWorkers
    /\ mpc' = "done"
    /\ UNCHANGED <<lkFrame, threads, interrupted, lkLoad, lkChan, wpc, wpos, witem, holds,
                   lockWork, lockRequest, lockCurrentStatus>>

LkWorker(w) ==
    \/ LkEnter(w) \/ LkGetNext(w) \/ LkAllDone(w) \/ LkWorkEnd(w) \/ LkWake(w)
    \/ LkWorkBegin(w) \/ LkExit(w) \/ LkLock(w) \/ LkReportStatus(w) \/ LkLogInfo(w)
    \/ LkParallel(w) \/ LkReportError(w) \/ LkEnd(w)

LkMain == LkMainWake \/ LkMainProcess \/ LkMainStatus \/ LkMainJoin

LocksNext == LkMain \/ \E w \in Workers : LkWorker(w)

\* every thread that can run does run, and a thread waiting for a mutex that
\* is free again and again gets it
SpecLocks ==
    /\ LocksInit /\ [][LocksNext]_vars
    /\ SF_vars(LkMain)
    /\ \A w \in Workers : SF_vars(LkWorker(w))

\* ------------------------------------------------------------------- C37
LkThreads == 1..MainThread

\* the owner of a mutex (0: free); singleThread has at most one owner
OwnerOf(m) ==
    CASE m = "singleThread" -> IF holds = {} THEN 0 ELSE CHOOSE w \in holds : TRUE
      [] m = "lockWork" -> lockWork
      [] m = "lockRequest" -> lockRequest
      [] m = "lockCurrentStatus" -> lockCurrentStatus

\* the mutex the thread's next statement locks ("none": the thread is not
\* about to lock a mutex)
WaitsFor(t) ==
    IF t = MainThread
    THEN CASE mpc = "wait" -> "lockRequest"
           [] mpc = "status" -> "lockCurrentStatus"
           [] OTHER -> "none"
    ELSE CASE wpc[t] = "next" -> "lockWork"
           [] wpc[t] = "idle" /\ (t \in notified \/ interrupted[t]) -> "lockWork"
           [] wpc[t] = "allDone" -> "lockRequest"
           [] wpc[t] \in {"workEnd", "workBegin", "exitBegin", "exitEnd"} -> "lockCurrentStatus"
           [] wpc[t] = "lock" -> "singleThread"
           [] wpc[t] = "run" /\ wpos[t] = "status" -> "lockCurrentStatus"
           [] wpc[t] = "run" /\ wpos[t] \in {"log", "err", "log_wait", "err_slot", "err_resp"}
                -> "lockRequest"
           [] wpc[t] = "run" /\ wpos[t] \in {"relock_ok", "relock_fail"} -> "singleThread"
           [] wpc[t] = "run" /\ wpos[t] = "end" /\ witem[t].t = "folder" -> "lockWork"
           [] OTHER -> "none"

\* thread t is blocked by thread u
BlockedBy(t, u) == t # u /\ WaitsFor(t) # "none" /\ OwnerOf(WaitsFor(t)) = u

CyclicWait == \E S \in SUBSET LkThreads : S # {} /\ \A t \in S : \E u \in S : BlockedBy(t, u)

\* C37: when every error prompt is answered and every filesystem call
\* returns, there is never a set of threads each of which waits for a mutex
\* (singleThread, lockWork_, lockRequest_, lockCurrentStatus_) that another
\* thread of the set owns; the pass reaches notifyAllDone, waitUntilDone
\* returns, every worker ends and runPass returns with all mutexes free.
C37_NoDeadlock ==
    /\ [](~CyclicWait)
    /\ <>(finishNow /\ mpc = "join")
    /\ <>[](/\ mpc = "done" /\ finishNow /\ AllEmpty
            /\ \A w \in Workers : wpc[w] = "term"
            /\ holds = {} /\ lockWork = 0 /\ lockRequest = 0 /\ lockCurrentStatus = 0)

\* the last worker to become idle waits for lockRequest_, which the main
\* thread owns, while it owns lockWork_, for which another worker waits
C37_Witness ==
    \E w, v \in Workers :
        /\ wpc[w] = "allDone" /\ lockWork = w /\ lockRequest = MainThread
        /\ wpc[v] = "idle" /\ v \in notified

\* ------------------------------------------------------------------- C38
\* the worker is inside synchronizeFolder / synchronizeFile / synchronizeLink
\* for a tree entity (between the call and its return, parallel I/O and error
\* prompts included)
SyncPos == {"sync_start", "fo_probe", "fo_exist", "fo_copy", "fc_copy", "mv_ren", "meta_ren",
            "ow_rm", "ow_copy1", "ow_copy2", "ow_cb", "ow_undo", "fd_rm", "del_rm",
            "vf_probe", "vf_verify", "vf_rm"}

Synchronizing(w) == wpc[w] \in {"run", "io"} /\ wpos[w] \in SyncPos

\* the worker's synchronizeFolder reports the creation of its folder:
\* statReporter.reportDelta(1, 0) after copyNewFolder, or after the folder
\* was found existing
CreditsFolder(w) ==
    /\ wpc[w] = "run" /\ wpos[w] \in {"fo_copy", "fo_exist"}
    /\ wpos'[w] \notin {"fo_copy", "fo_exist"}
    /\ procItems' = procItems + 1

\* C38 as stated: two workers are never inside the synchronization of the
\* same entity, and the creation of a folder is added to the processed items
\* only while the folder's row is not yet in sync, hence once.
C38_OneWorkerPerEntity ==
    /\ [](\A w, v \in Workers :
            (w # v /\ Synchronizing(w) /\ Synchronizing(v)) => wcur[w] # wcur[v])
    /\ [][\A w \in Workers :
            CreditsFolder(w) =>
               isEmpty(tree[wcur[w]], getTargetDirection(wsnap[w].op))]_vars

\* ------------------------------------------------------------------- C39
\* worker w is inside AsyncCallback::reportError with its request posted
Requesting(w) == wpc[w] = "run" /\ wpos[w] \in {"err_resp", "err_take"}

\* C39: the request slot names a worker exactly while that worker is in
\* reportError after posting, so at most one request is open.  A request is
\* posted only by the worker it names, under lockRequest_, with both slots
\* empty.  The main thread asks the reporter (sets the response) only for an
\* open request without a response, and the response is then left alone
\* until the requesting worker consumes it.  A worker returns from
\* reportError only as the worker named in the request and with a response
\* present; it goes on as that response says (RETRY: the command again,
\* IGNORE: the end of the work item), clears both slots in the same step
\* and no other worker moves in it.  Every request is answered and consumed.
C39_RequestResponsePairing ==
    /\ [](\A w \in Workers : errorRequest = w <=> Requesting(w))
    /\ [](errorResponse # "none" => errorRequest # 0)
    /\ [][\A w \in Workers :
            (~Requesting(w) /\ Requesting(w)') =>
                /\ lockRequest = w
                /\ errorRequest = 0 /\ errorResponse = "none"
                /\ errorRequest' = w /\ errorResponse' = "none"]_vars
    /\ [][errorResponse' # errorResponse =>
            \/ /\ errorResponse = "none" /\ errorRequest # 0 /\ errorRequest' = errorRequest
               /\ mpc = "proc" /\ lockRequest = MainThread
               /\ wpc' = wpc /\ wpos' = wpos
            \/ /\ errorResponse' = "none" /\ errorRequest' = 0
               /\ errorRequest \in Workers /\ wpos'[errorRequest] \in {"io_begin", "end"}]_vars
    /\ [][\A w \in Workers :
            (Requesting(w) /\ ~Requesting(w)') =>
                /\ lockRequest = w
                /\ errorRequest = w /\ errorResponse \in {"IGNORE", "RETRY"}
                /\ errorRequest' = 0 /\ errorResponse' = "none"
                /\ wpos'[w] = IF errorResponse = "RETRY" THEN "io_begin" ELSE "end"
                /\ \A v \in Workers \ {w} : wpc'[v] = wpc[v] /\ wpos'[v] = wpos[v]]_vars
    /\ \A w \in Workers : Requesting(w) ~> ~Requesting(w)

\* the response to a worker's request has not been consumed yet while the
\* filesystem call of another worker has failed, which that worker will
\* report once it has singleThread
C39_Witness ==
    \E w, v \in Workers :
        /\ w # v
        /\ Requesting(w) /\ errorResponse # "none"
        /\ wpc[v] = "run" /\ wpos[v] = "relock_fail"

\* ------------------------------------------------ database save guard
\* the pair has entered the scope that guardDbSave protects: its log line
\* was written, the second drop check found the base folders and
\* createBaseFolder succeeded
Reached(p) ==
    /\ Ev("info", p, "begin") \in jlog
    /\ Ev("error", p, "drop2") \notin jlog
    /\ Ev("error", p, "base") \notin jlog

\* an exception has left the scope of the pair
AbortedAt(p) == jpc = "aborted" /\ folderIndex = p

\* the scope of the pair has been left, by the end of the loop body or by
\* an exception
ScopeLeft(p) == Reached(p) /\ (folderIndex > p \/ jpc = "done" \/ AbortedAt(p))

\* the calls of saveLastSynchronousState for the pair
DbWrites(p) == {e \in jlog : e.pair = p /\ e.ev = "saveDb"}

\* C40: for every folder pair with saveSyncDB whose guarded scope was entered
\* (not skipped, base folders present), saveLastSynchronousState has been
\* called at least once by the time the scope is left: by the scope guard
\* when an exception X leaves (from the permission check, from runSync, or
\* from the graceful database write), by the graceful write otherwise.  When
\* the graceful write ends without an exception leaving, the guard is
\* dismissed: the scope guard has made no call for that pair, and the step
\* that ends the graceful write adds none.
C40_DbSaveGuard ==
    /\ [](\A p \in Pairs :
            folderPairCfg[p].saveSyncDB /\ ScopeLeft(p) =>
               /\ DbWrites(p) # {}
               /\ AbortedAt(p) => Ev("saveDb", p, "guard") \in jlog
               /\ ~AbortedAt(p) => /\ Ev("saveDb", p, "graceful") \in jlog
                                   /\ Ev("saveDb", p, "guard") \notin jlog)
    /\ [][jpc = "db" /\ jpc' = "loop" /\ folderPairCfg[folderIndex].saveSyncDB =>
            /\ Ev("saveDb", folderIndex, "graceful") \in jlog'
            /\ Ev("saveDb", folderIndex, "guard") \notin jlog'
            /\ folderIndex' = folderIndex + 1]_vars

\* the graceful database write of the second pair was cancelled by the
\* status callback, and the scope guard has written the database again; the
\* first pair was written once, gracefully, after a failed first try
C40_Witness ==
    /\ AbortedAt(2) /\ folderPairCfg[1].saveSyncDB /\ folderPairCfg[2].saveSyncDB
    /\ DbWrites(2) = {Ev("saveDb", 2, "graceful"), Ev("saveDb", 2, "guard")}
    /\ Ev("error", 2, "db") \notin jlog
    /\ DbWrites(1) = {Ev("saveDb", 1, "graceful")}
    /\ Ev("error", 1, "db") \in jlog

====
